---- MODULE Spec2Model ----
(***************************************************************************)
(* A model of the WE32100 core of dmd_core (src/src/cpu.rs): the register  *)
(* file and PSW, the operand and instruction decoder, operand reads and    *)
(* writes, the step loop with its interrupt poll, and the three-phase      *)
(* context switch used by interrupt entry, CALLPS and RETPS.               *)
(*                                                                         *)
(* A u32 is the pair <<hi, lo>> of its 16-bit halves: TLC's integers are   *)
(* 32-bit signed, so 0x80000000..0xFFFFFFFF have no integer of their own.  *)
(* All arithmetic on words is modulo 2^32, as u32 arithmetic is.           *)
(***************************************************************************)
EXTENDS Integers, Sequences, FiniteSets, TLC

VARIABLES
    r,              \* Cpu.r: the sixteen registers, 0..15 -> word
    ir,             \* Cpu.ir: the instruction register
    steps,          \* Cpu.steps
    error_context,  \* Cpu.error_context
    mem,            \* the bus's memory: byte address -> byte (absent = 0)
    irq,            \* what bus.get_interrupts() answered last: -1 (None) or a u8
    ret,            \* what the last call returned to the host
    pre,            \* registers and memory on entry to the last call
    log,            \* the bus calls and phases of the last call, in order
    probe,          \* the machine before and after each context-switch phase
    hist            \* the calls a harness made, with their inputs and answers

vars == <<r, ir, steps, error_context, mem, irq, ret, pre, log, probe, hist>>

(***************************************************************************)
(* Words.                                                                  *)
(***************************************************************************)
\* The word of a natural number below 2^31.
W(n) == <<n \div 65536, n % 65536>>

RECURSIVE and16(_, _, _)
and16(a, b, n) ==
    IF n = 0 THEN 0
    ELSE (a % 2) * (b % 2) + 2 * and16(a \div 2, b \div 2, n - 1)

AndW(a, b) == <<and16(a[1], b[1], 16), and16(a[2], b[2], 16)>>
NotW(a) == <<65535 - a[1], 65535 - a[2]>>
OrW(a, b) == NotW(AndW(NotW(a), NotW(b)))
AddW(a, b) ==
    LET lo == a[2] + b[2]
    IN  <<(a[1] + b[1] + (lo \div 65536)) % 65536, lo % 65536>>
SubW(a, b) == AddW(AddW(a, NotW(b)), <<0, 1>>)

\* x << n and x >> n of a u32, for n in 0..31
shl(x, n) ==
    IF n >= 16 THEN <<(x[2] % (2 ^ (32 - n))) * (2 ^ (n - 16)), 0>>
    ELSE <<(x[1] % (2 ^ (16 - n))) * (2 ^ n) + (x[2] \div (2 ^ (16 - n))),
           (x[2] % (2 ^ (16 - n))) * (2 ^ n)>>
shr(x, n) ==
    IF n >= 16 THEN <<0, x[1] \div (2 ^ (n - 16))>>
    ELSE <<x[1] \div (2 ^ n), (x[1] % (2 ^ n)) * (2 ^ (16 - n)) + (x[2] \div (2 ^ n))>>

\* `x as usize` of a u32. Every address from 2^31 up is outside every device
\* of the bus, so all of them are given as the one largest integer.
usize(w) == IF w[1] < 16384 THEN w[1] * 65536 + w[2] ELSE 1073741824

sign_extend_halfword(data) == IF data >= 32768 THEN <<65535, data>> ELSE <<0, data>>
\* a byte widened with zeros, whatever its sign bit
sign_extend_byte_unsigned(data) == <<0, data>>
sign_extend_byte(data) == IF data >= 128 THEN <<65535, 65280 + data>> ELSE <<0, data>>
add_offset(val, offset) == AddW(val, offset)

(***************************************************************************)
(* PSW flags and register indexes.                                         *)
(***************************************************************************)
F_ET == <<0, 3>>
F_TM == <<0, 4>>
F_ISC == <<0, 120>>
F_I == <<0, 128>>
F_R == <<0, 256>>
F_PM == <<0, 1536>>
F_CM == <<0, 6144>>
F_C == <<4, 0>>
F_V == <<8, 0>>
F_Z == <<16, 0>>
F_N == <<32, 0>>

R_FP == 9
R_AP == 10
R_PSW == 11
R_SP == 12
R_PCBP == 13
R_ISP == 14
R_PC == 15

IPL_TABLE == [i \in 0..63 |-> IF i = 0 THEN 0 ELSE IF i < 8 THEN 14 ELSE 15]

WE32100_VERSION == 26

(***************************************************************************)
(* The opcode table: <<opcode, dtype, name, ops>>.                         *)
(***************************************************************************)
MNEMONICS == {
    <<0, "None", "halt", <<>>>>,
    <<2, "Word", "SPOPRD", <<"Lit", "Src">>>>,
    <<3, "Word", "SPOPRD2", <<"Lit", "Src", "Dest">>>>,
    <<4, "Word", "MOVAW", <<"Src", "Dest">>>>,
    <<6, "Word", "SPOPRT", <<"Lit", "Src">>>>,
    <<7, "Word", "SPOPT2", <<"Lit", "Src", "Dest">>>>,
    <<8, "None", "RET", <<>>>>,
    <<12, "Word", "MOVTRW", <<"Src", "Dest">>>>,
    <<16, "Word", "SAVE", <<"Src">>>>,
    <<19, "Word", "SPOPWD", <<"Lit", "Dest">>>>,
    <<20, "Byte", "EXTOP", <<>>>>,
    <<23, "Word", "SPOPWT", <<"Lit", "Dest">>>>,
    <<24, "None", "RESTORE", <<"Src">>>>,
    <<28, "Word", "SWAPWI", <<"Dest">>>>,
    <<30, "Half", "SWAPHI", <<"Dest">>>>,
    <<31, "Byte", "SWAPBI", <<"Dest">>>>,
    <<32, "Word", "POPW", <<"Src">>>>,
    <<34, "Word", "SPOPRS", <<"Lit", "Src">>>>,
    <<35, "Word", "SPOPS2", <<"Lit", "Src", "Dest">>>>,
    <<36, "Word", "JMP", <<"Dest">>>>,
    <<39, "None", "CFLUSH", <<>>>>,
    <<40, "Word", "TSTW", <<"Src">>>>,
    <<42, "Half", "TSTH", <<"Src">>>>,
    <<43, "Byte", "TSTB", <<"Src">>>>,
    <<44, "Word", "CALL", <<"Src", "Dest">>>>,
    <<46, "None", "BPT", <<>>>>,
    <<47, "None", "WAIT", <<>>>>,
    <<50, "Word", "SPOP", <<"Lit">>>>,
    <<51, "Word", "SPOPWS", <<"Lit", "Dest">>>>,
    <<52, "Word", "JSB", <<"Dest">>>>,
    <<54, "Half", "BSBH", <<"Lit">>>>,
    <<55, "Byte", "BSBB", <<"Lit">>>>,
    <<56, "Word", "BITW", <<"Src", "Src">>>>,
    <<58, "Half", "BITH", <<"Src", "Src">>>>,
    <<59, "Byte", "BITB", <<"Src", "Src">>>>,
    <<60, "Word", "CMPW", <<"Src", "Src">>>>,
    <<62, "Half", "CMPH", <<"Src", "Src">>>>,
    <<63, "Byte", "CMPB", <<"Src", "Src">>>>,
    <<64, "None", "RGEQ", <<>>>>,
    <<66, "Half", "BGEH", <<"Lit">>>>,
    <<67, "Byte", "BGEB", <<"Lit">>>>,
    <<68, "None", "RGTR", <<>>>>,
    <<70, "Half", "BGH", <<"Lit">>>>,
    <<71, "Byte", "BGB", <<"Lit">>>>,
    <<72, "None", "RLSS", <<>>>>,
    <<74, "Half", "BLH", <<"Lit">>>>,
    <<75, "Byte", "BLB", <<"Lit">>>>,
    <<76, "None", "RLEQ", <<>>>>,
    <<78, "Half", "BLEH", <<"Lit">>>>,
    <<79, "Byte", "BLEB", <<"Lit">>>>,
    <<80, "None", "RGEQU", <<>>>>,
    <<82, "Half", "BGEUH", <<"Lit">>>>,
    <<83, "Byte", "BGEUB", <<"Lit">>>>,
    <<84, "None", "RGTRU", <<>>>>,
    <<86, "Half", "BGUH", <<"Lit">>>>,
    <<87, "Byte", "BGUB", <<"Lit">>>>,
    <<88, "None", "RLSSU", <<>>>>,
    <<90, "Half", "BLUH", <<"Lit">>>>,
    <<91, "Byte", "BLUB", <<"Lit">>>>,
    <<92, "None", "RLEQU", <<>>>>,
    <<94, "Half", "BLEUH", <<"Lit">>>>,
    <<95, "Byte", "BLEUB", <<"Lit">>>>,
    <<96, "None", "RVC", <<>>>>,
    <<98, "Half", "BVCH", <<"Lit">>>>,
    <<99, "Byte", "BVCB", <<"Lit">>>>,
    <<100, "None", "RNEQU", <<>>>>,
    <<102, "Half", "BNEH", <<"Lit">>>>,
    <<103, "Byte", "BNEB", <<"Lit">>>>,
    <<104, "None", "RVS", <<>>>>,
    <<106, "Half", "BVSH", <<"Lit">>>>,
    <<107, "Byte", "BVSB", <<"Lit">>>>,
    <<108, "None", "REQLU", <<>>>>,
    <<110, "Half", "BEH", <<"Lit">>>>,
    <<111, "Byte", "BEB", <<"Lit">>>>,
    <<112, "None", "NOP", <<>>>>,
    <<114, "None", "NOP3", <<>>>>,
    <<115, "None", "NOP2", <<>>>>,
    <<116, "None", "RNEQ", <<>>>>,
    <<118, "Half", "BNEH", <<"Lit">>>>,
    <<119, "Byte", "BNEB", <<"Lit">>>>,
    <<120, "None", "RSB", <<>>>>,
    <<122, "Half", "BRH", <<"Lit">>>>,
    <<123, "Byte", "BRB", <<"Lit">>>>,
    <<124, "None", "REQL", <<>>>>,
    <<126, "Half", "BEH", <<"Lit">>>>,
    <<127, "Byte", "BEB", <<"Lit">>>>,
    <<128, "Word", "CLRW", <<"Dest">>>>,
    <<130, "Half", "CLRH", <<"Dest">>>>,
    <<131, "Byte", "CLRB", <<"Dest">>>>,
    <<132, "Word", "MOVW", <<"Src", "Dest">>>>,
    <<134, "Half", "MOVH", <<"Src", "Dest">>>>,
    <<135, "Byte", "MOVB", <<"Src", "Dest">>>>,
    <<136, "Word", "MCOMW", <<"Src", "Dest">>>>,
    <<138, "Half", "MCOMH", <<"Src", "Dest">>>>,
    <<139, "Byte", "MCOMB", <<"Src", "Dest">>>>,
    <<140, "Word", "MNEGW", <<"Src", "Dest">>>>,
    <<142, "Half", "MNEGH", <<"Src", "Dest">>>>,
    <<143, "Byte", "MNEGB", <<"Src", "Dest">>>>,
    <<144, "Word", "INCW", <<"Dest">>>>,
    <<146, "Half", "INCH", <<"Dest">>>>,
    <<147, "Byte", "INCB", <<"Dest">>>>,
    <<148, "Word", "DECW", <<"Dest">>>>,
    <<150, "Half", "DECH", <<"Dest">>>>,
    <<151, "Byte", "DECB", <<"Dest">>>>,
    <<156, "Word", "ADDW2", <<"Src", "Dest">>>>,
    <<158, "Half", "ADDH2", <<"Src", "Dest">>>>,
    <<159, "Byte", "ADDB2", <<"Src", "Dest">>>>,
    <<160, "Word", "PUSHW", <<"Src">>>>,
    <<164, "Word", "MODW2", <<"Src", "Dest">>>>,
    <<166, "Half", "MODH2", <<"Src", "Dest">>>>,
    <<167, "Byte", "MODB2", <<"Src", "Dest">>>>,
    <<168, "Word", "MULW2", <<"Src", "Dest">>>>,
    <<170, "Half", "MULH2", <<"Src", "Dest">>>>,
    <<171, "Byte", "MULB2", <<"Src", "Dest">>>>,
    <<172, "Word", "DIVW2", <<"Src", "Dest">>>>,
    <<174, "Half", "DIVH2", <<"Src", "Dest">>>>,
    <<175, "Byte", "DIVB2", <<"Src", "Dest">>>>,
    <<176, "Word", "ORW2", <<"Src", "Dest">>>>,
    <<178, "Half", "ORH2", <<"Src", "Dest">>>>,
    <<179, "Byte", "ORB2", <<"Src", "Dest">>>>,
    <<180, "Word", "XORW2", <<"Src", "Dest">>>>,
    <<182, "Half", "XORH2", <<"Src", "Dest">>>>,
    <<183, "Byte", "XORB2", <<"Src", "Dest">>>>,
    <<184, "Word", "ANDW2", <<"Src", "Dest">>>>,
    <<186, "Half", "ANDH2", <<"Src", "Dest">>>>,
    <<187, "Byte", "ANDB2", <<"Src", "Dest">>>>,
    <<188, "Word", "SUBW2", <<"Src", "Dest">>>>,
    <<190, "Half", "SUBH2", <<"Src", "Dest">>>>,
    <<191, "Byte", "SUBB2", <<"Src", "Dest">>>>,
    <<192, "Word", "ALSW3", <<"Src", "Src", "Dest">>>>,
    <<196, "Word", "ARSW3", <<"Src", "Src", "Dest">>>>,
    <<198, "Half", "ARSH3", <<"Src", "Src", "Dest">>>>,
    <<199, "Byte", "ARSB3", <<"Src", "Src", "Dest">>>>,
    <<200, "Word", "INSFW", <<"Src", "Src", "Src", "Dest">>>>,
    <<202, "Half", "INSFH", <<"Src", "Src", "Src", "Dest">>>>,
    <<203, "Byte", "INSFB", <<"Src", "Src", "Src", "Dest">>>>,
    <<204, "Word", "EXTFW", <<"Src", "Src", "Src", "Dest">>>>,
    <<206, "Half", "EXTFH", <<"Src", "Src", "Src", "Dest">>>>,
    <<207, "Byte", "EXTFB", <<"Src", "Src", "Src", "Dest">>>>,
    <<208, "Word", "LLSW3", <<"Src", "Src", "Dest">>>>,
    <<210, "Half", "LLSH3", <<"Src", "Src", "Dest">>>>,
    <<211, "Byte", "LLSB3", <<"Src", "Src", "Dest">>>>,
    <<212, "Word", "LRSW3", <<"Src", "Src", "Dest">>>>,
    <<216, "Word", "ROTW", <<"Src", "Src", "Dest">>>>,
    <<220, "Word", "ADDW3", <<"Src", "Src", "Dest">>>>,
    <<222, "Half", "ADDH3", <<"Src", "Src", "Dest">>>>,
    <<223, "Byte", "ADDB3", <<"Src", "Src", "Dest">>>>,
    <<224, "Word", "PUSHAW", <<"Src">>>>,
    <<228, "Word", "MODW3", <<"Src", "Src", "Dest">>>>,
    <<230, "Half", "MODH3", <<"Src", "Src", "Dest">>>>,
    <<231, "Byte", "MODB3", <<"Src", "Src", "Dest">>>>,
    <<232, "Word", "MULW3", <<"Src", "Src", "Dest">>>>,
    <<234, "Half", "MULH3", <<"Src", "Src", "Dest">>>>,
    <<235, "Byte", "MULB3", <<"Src", "Src", "Dest">>>>,
    <<236, "Word", "DIVW3", <<"Src", "Src", "Dest">>>>,
    <<238, "Half", "DIVH3", <<"Src", "Src", "Dest">>>>,
    <<239, "Byte", "DIVB3", <<"Src", "Src", "Dest">>>>,
    <<240, "Word", "ORW3", <<"Src", "Src", "Dest">>>>,
    <<242, "Half", "ORH3", <<"Src", "Src", "Dest">>>>,
    <<243, "Byte", "ORB3", <<"Src", "Src", "Dest">>>>,
    <<244, "Word", "XORW3", <<"Src", "Src", "Dest">>>>,
    <<246, "Half", "XORH3", <<"Src", "Src", "Dest">>>>,
    <<247, "Byte", "XORB3", <<"Src", "Src", "Dest">>>>,
    <<248, "Word", "ANDW3", <<"Src", "Src", "Dest">>>>,
    <<250, "Half", "ANDH3", <<"Src", "Src", "Dest">>>>,
    <<251, "Byte", "ANDB3", <<"Src", "Src", "Dest">>>>,
    <<252, "Word", "SUBW3", <<"Src", "Src", "Dest">>>>,
    <<254, "Half", "SUBH3", <<"Src", "Src", "Dest">>>>,
    <<255, "Byte", "SUBB3", <<"Src", "Src", "Dest">>>>,
    <<12297, "None", "MVERNO", <<>>>>,
    <<12301, "None", "ENBVJMP", <<>>>>,
    <<12307, "None", "DISVJMP", <<>>>>,
    <<12313, "None", "MOVBLW", <<>>>>,
    <<12319, "None", "STREND", <<>>>>,
    <<12335, "None", "INTACK", <<>>>>,
    <<12351, "None", "STRCPY", <<>>>>,
    <<12357, "None", "RETG", <<>>>>,
    <<12385, "None", "GATE", <<>>>>,
    <<12460, "None", "CALLPS", <<>>>>,
    <<12488, "None", "RETPS", <<>>>>
}

mnemonic(index) == CHOOSE mn \in MNEMONICS : mn[1] = index
HasMnemonic(index) == \E mn \in MNEMONICS : mn[1] = index

(***************************************************************************)
(* The bus (crate::bus, not part of cpu.rs; modelled from the contract in  *)
(* section 6 of the specification).  One device covers [0, MemSize); a     *)
(* byte that was never written reads 0 and the memory function holds only  *)
(* the non-zero bytes, so two memories are equal iff every byte is.        *)
(* read_word/write_word are big-endian; the operand-fetch variants         *)
(* read_op_half/read_op_word are little-endian (tests, cpu.rs 2202-2229).  *)
(***************************************************************************)
MemSize == 4096

BusOk(a, n) == a >= 0 /\ a + n <= MemSize

read_byte(mm, a) == IF a \in DOMAIN mm THEN mm[a] ELSE 0
read_half(mm, a) == read_byte(mm, a) * 256 + read_byte(mm, a + 1)
read_word(mm, a) == <<read_half(mm, a), read_half(mm, a + 2)>>
read_op_half(mm, a) == read_byte(mm, a) + 256 * read_byte(mm, a + 1)
read_op_word(mm, a) == <<read_op_half(mm, a + 2), read_op_half(mm, a)>>

write_byte(mm, a, b) ==
    IF b = 0 THEN [x \in DOMAIN mm \ {a} |-> mm[x]]
    ELSE [x \in DOMAIN mm \cup {a} |-> IF x = a THEN b ELSE mm[x]]
write_half(mm, a, h) == write_byte(write_byte(mm, a, h \div 256), a + 1, h % 256)
write_word(mm, a, w) == write_half(write_half(mm, a, w[1]), a + 2, w[2])

\* bus.load(base, bytes)
load(mm, base, bytes) ==
    LET hit(x) == x >= base /\ x < base + Len(bytes)
        new(x) == IF hit(x) THEN bytes[x - base + 1] ELSE mm[x]
        dom == DOMAIN mm \cup {base + i - 1 : i \in 1..Len(bytes)}
    IN  [x \in {y \in dom : new(y) # 0} |-> new(x)]

(***************************************************************************)
(* The machine a call works on: the Cpu's fields, the bus's memory, the    *)
(* error the call has raised so far ("Ok" = none) and the log of what it   *)
(* did.  Every operation below passes a machine that already carries an    *)
(* error through unchanged, which is what `?` does in the source.          *)
(***************************************************************************)
Fail(m, e) == [m EXCEPT !.err = e]
Logged(m, op, a, n) == [m EXCEPT !.log = Append(@, <<op, a, n>>)]

\* A bus read of n bytes at a: logged; a BusError outside the device.
bus_read(m, a, n) ==
    IF m.err # "Ok" THEN m
    ELSE IF BusOk(a, n) THEN Logged(m, "read", a, n)
    ELSE Fail(Logged(m, "read", a, n), "Bus")

bus_write_word(m, a, w) ==
    IF m.err # "Ok" THEN m
    ELSE IF BusOk(a, 4)
         THEN [Logged(m, "write", a, 4) EXCEPT !.mem = write_word(@, a, w)]
    ELSE Fail(Logged(m, "write", a, 4), "Bus")

bus_write_half(m, a, h) ==
    IF m.err # "Ok" THEN m
    ELSE IF BusOk(a, 2)
         THEN [Logged(m, "write", a, 2) EXCEPT !.mem = write_half(@, a, h)]
    ELSE Fail(Logged(m, "write", a, 2), "Bus")

bus_write_byte(m, a, b) ==
    IF m.err # "Ok" THEN m
    ELSE IF BusOk(a, 1)
         THEN [Logged(m, "write", a, 1) EXCEPT !.mem = write_byte(@, a, b)]
    ELSE Fail(Logged(m, "write", a, 1), "Bus")

SetReg(m, i, w) == IF m.err # "Ok" THEN m ELSE [m EXCEPT !.r[i] = w]

(***************************************************************************)
(* Operands and the instruction register.  Option::None of expanded_type   *)
(* is "Nothing" (Data::None is "None"); Option::None of register is -1.    *)
(***************************************************************************)
Operand_new(size, mode, data_type, expanded_type, register, embedded) ==
    [size |-> size, mode |-> mode, data_type |-> data_type,
     expanded_type |-> expanded_type, register |-> register,
     embedded |-> embedded, data |-> <<0, 0>>]

Operand_data_type(op) ==
    IF op.expanded_type # "Nothing" THEN op.expanded_type ELSE op.data_type

Cpu_new_ir ==
    [opcode |-> 0, name |-> "???", data_type |-> "None", bytes |-> 0,
     operand_count |-> 0,
     operands |-> [i \in 0..3 |->
                     Operand_new(0, "None", "None", "Nothing", -1, <<0, 0>>)]]

set_operand(m, index, size, mode, data_type, expanded_type, register, embedded) ==
    [m EXCEPT !.ir.operands[index] =
        [@ EXCEPT !.size = size, !.mode = mode, !.data_type = data_type,
                  !.expanded_type = expanded_type, !.register = register,
                  !.embedded = embedded]]

(***************************************************************************)
(* The operand decoder.                                                    *)
(***************************************************************************)
decode_literal_operand(m, index, mn, addr) ==
    IF m.err # "Ok" THEN m
    ELSE CASE mn[2] = "Byte" ->
                LET m1 == bus_read(m, addr, 1)
                IN  IF m1.err # "Ok" THEN m1
                    ELSE set_operand(m1, index, 1, "None", "Byte", "Nothing", -1,
                                     <<0, read_byte(m.mem, addr)>>)
           [] mn[2] = "Half" ->
                LET m1 == bus_read(m, addr, 2)
                IN  IF m1.err # "Ok" THEN m1
                    ELSE set_operand(m1, index, 2, "None", "Half", "Nothing", -1,
                                     <<0, read_op_half(m.mem, addr)>>)
           [] mn[2] = "Word" ->
                LET m1 == bus_read(m, addr, 4)
                IN  IF m1.err # "Ok" THEN m1
                    ELSE set_operand(m1, index, 4, "None", "Word", "Nothing", -1,
                                     read_op_word(m.mem, addr))
           [] OTHER -> Fail(m, "IllegalOpcode")

\* The width an expanded-type descriptor 0xE<r> selects.
expanded_width(rr) ==
    CASE rr = 0 -> "UWord" [] rr = 2 -> "UHalf" [] rr = 3 -> "Byte"
      [] rr = 4 -> "Word"  [] rr = 6 -> "Half"  [] rr = 7 -> "SByte"

RECURSIVE decode_descriptor_operand(_, _, _, _, _, _)
decode_descriptor_operand(m, index, dtype, etype, addr, recur) ==
    LET m0 == bus_read(m, addr, 1)
        descriptor_byte == read_byte(m.mem, addr)
        mode == descriptor_byte \div 16
        rr == descriptor_byte % 16
        \* 1 or 2 bytes, depending on whether this is a recursive call
        dsize == IF recur THEN 2 ELSE 1
        plain(md, reg, emb) == set_operand(m0, index, dsize, md, dtype, etype, reg, emb)
        word(md, reg) ==
            LET m1 == bus_read(m0, addr + 1, 4)
            IN  IF m1.err # "Ok" THEN m1
                ELSE set_operand(m1, index, dsize + 4, md, dtype, etype, reg,
                                 read_op_word(m.mem, addr + 1))
        half(md, reg) ==
            LET m1 == bus_read(m0, addr + 1, 2)
            IN  IF m1.err # "Ok" THEN m1
                ELSE set_operand(m1, index, dsize + 2, md, dtype, etype, reg,
                                 <<0, read_op_half(m.mem, addr + 1)>>)
        byte(md, reg) ==
            LET m1 == bus_read(m0, addr + 1, 1)
            IN  IF m1.err # "Ok" THEN m1
                ELSE set_operand(m1, index, dsize + 1, md, dtype, etype, reg,
                                 <<0, read_byte(m.mem, addr + 1)>>)
        illegal == Fail(m0, "IllegalOpcode")
    IN  IF m0.err # "Ok" THEN m0
        ELSE CASE mode \in 0..3 -> plain("PositiveLiteral", -1, <<0, descriptor_byte>>)
               [] mode = 4 -> IF rr = 15 THEN word("WordImmediate", -1)
                              ELSE plain("Register", rr, <<0, 0>>)
               [] mode = 5 -> IF rr = 15 THEN half("HalfwordImmediate", -1)
                              ELSE IF rr = 11 THEN illegal
                              ELSE plain("RegisterDeferred", rr, <<0, 0>>)
               [] mode = 6 -> IF rr = 15 THEN byte("ByteImmediate", -1)
                              ELSE plain("FPShortOffset", R_FP, <<0, rr>>)
               [] mode = 7 -> IF rr = 15 THEN word("Absolute", -1)
                              ELSE plain("APShortOffset", R_AP, <<0, rr>>)
               [] mode = 8 -> IF rr = 11 THEN illegal ELSE word("WordDisplacement", rr)
               [] mode = 9 -> IF rr = 11 THEN illegal
                              ELSE word("WordDisplacementDeferred", rr)
               [] mode = 10 -> IF rr = 11 THEN illegal
                               ELSE half("HalfwordDisplacement", rr)
               [] mode = 11 -> IF rr = 11 THEN illegal
                               ELSE half("HalfwordDisplacementDeferred", rr)
               [] mode = 12 -> IF rr = 11 THEN illegal ELSE byte("ByteDisplacement", rr)
               [] mode = 13 -> IF rr = 11 THEN illegal
                               ELSE byte("ByteDisplacementDeferred", rr)
               [] mode = 14 ->
                    IF rr \in {0, 2, 3, 4, 6, 7}
                    THEN decode_descriptor_operand(m0, index, dtype,
                                                   expanded_width(rr), addr + 1, TRUE)
                    ELSE IF rr = 15 THEN word("AbsoluteDeferred", -1)
                    ELSE illegal
               [] mode = 15 ->
                    set_operand(m0, index, 1, "NegativeLiteral", dtype, etype, -1,
                                <<0, descriptor_byte>>)

\* decode_operand that reads a reserved descriptor as %r0
decode_operand_lenient(m, index, mn, ot, etype, addr) ==
    LET lenient(d) ==
            IF d.err = "IllegalOpcode"
            THEN set_operand([d EXCEPT !.err = "Ok"], index, 1, "Register", mn[2],
                             etype, 0, <<0, 0>>)
            ELSE d
    IN  IF ot = "Lit" THEN decode_literal_operand(m, index, mn, addr)
        ELSE lenient(decode_descriptor_operand(m, index, mn[2], etype, addr, FALSE))

decode_operand(m, index, mn, ot, etype, addr) ==
    IF ot = "Lit" THEN decode_literal_operand(m, index, mn, addr)
    ELSE decode_descriptor_operand(m, index, mn[2], etype, addr, FALSE)

\* The operand loop of decode_instruction, from operand i (1-based in ops):
\* the machine after it and the address it has reached.
RECURSIVE decode_operands(_, _, _, _, _)
decode_operands(m, mn, i, etype, addr) ==
    LET next(m1) ==
            IF m1.err # "Ok" THEN [m |-> m1, addr |-> addr]
            ELSE decode_operands(m1, mn, i + 1, m1.ir.operands[i - 1].expanded_type,
                                 addr + m1.ir.operands[i - 1].size)
    IN  IF i > Len(mn[4]) THEN [m |-> m, addr |-> addr]
        ELSE next(decode_operand(m, i - 1, mn, mn[4][i], etype, addr))

decode_instruction(m) ==
    LET initial_addr == usize(m.r[R_PC])
        m1 == bus_read(Logged(m, "decode", initial_addr, 0), initial_addr, 1)
        b1 == read_byte(m.mem, initial_addr)
        m2 == IF b1 = 48 THEN bus_read(m1, initial_addr + 1, 1) ELSE m1
        index == IF b1 = 48 THEN 12288 + read_byte(m.mem, initial_addr + 1) ELSE b1
        addr == IF b1 = 48 THEN initial_addr + 2 ELSE initial_addr + 1
        mn == mnemonic(index)
        decoded(d) ==
            IF d.m.err # "Ok" THEN d.m
            ELSE [d.m EXCEPT !.ir.opcode = mn[1], !.ir.name = mn[3],
                             !.ir.data_type = mn[2],
                             !.ir.bytes = (d.addr - initial_addr) % 256,
                             !.ir.operand_count = Len(mn[4])]
    IN  IF m.err # "Ok" THEN m
        ELSE IF m1.err # "Ok" THEN m1
        ELSE IF m2.err # "Ok" THEN m2
        ELSE IF ~HasMnemonic(index) THEN Fail(m2, "IllegalOpcode")
        ELSE decoded(decode_operands(m2, mn, 1, "Nothing", addr))

(***************************************************************************)
(* Effective addresses, operand reads and writes.                          *)
(***************************************************************************)
effective_address(m, index) ==
    LET op == m.ir.operands[index]
        embedded == op.embedded
        register == op.register
        illegal == Fail(m, "IllegalOpcode")
        done(m1, addr) ==
            IF m1.err # "Ok" THEN m1
            ELSE [m1 EXCEPT !.ir.operands[index].data = addr]
        deferred(a) == done(bus_read(m, usize(a), 4), read_word(m.mem, usize(a)))
        byte_disp == sign_extend_byte(embedded[2] % 256)
        half_disp == sign_extend_halfword(embedded[2])
    IN  IF m.err # "Ok" THEN m
        ELSE CASE op.mode = "RegisterDeferred" ->
                    IF register < 0 THEN illegal ELSE done(m, m.r[register])
               [] op.mode = "Absolute" -> done(m, embedded)
               [] op.mode = "AbsoluteDeferred" -> deferred(embedded)
               [] op.mode = "FPShortOffset" -> done(m, add_offset(m.r[R_FP], byte_disp))
               [] op.mode = "APShortOffset" -> done(m, add_offset(m.r[R_AP], byte_disp))
               [] op.mode = "WordDisplacement" ->
                    IF register < 0 THEN illegal
                    ELSE done(m, add_offset(m.r[register], embedded))
               [] op.mode = "WordDisplacementDeferred" ->
                    IF register < 0 THEN illegal
                    ELSE deferred(add_offset(m.r[register], embedded))
               [] op.mode = "HalfwordDisplacement" ->
                    IF register < 0 THEN illegal
                    ELSE done(m, add_offset(m.r[register], half_disp))
               [] op.mode = "HalfwordDisplacementDeferred" ->
                    IF register < 0 THEN illegal
                    ELSE deferred(add_offset(m.r[register], half_disp))
               [] op.mode = "ByteDisplacement" ->
                    IF register < 0 THEN illegal
                    ELSE done(m, add_offset(m.r[register], byte_disp))
               [] op.mode = "ByteDisplacementDeferred" ->
                    IF register < 0 THEN illegal
                    ELSE deferred(add_offset(m.r[register], byte_disp))
               [] OTHER -> illegal

\* read_op: the machine after the read and the value read.  The value is
\* stored in a copy of the operand only (`let mut op = self.ir.operands[index]`),
\* so the instruction register keeps its data field.
read_op(m, index) ==
    LET op == m.ir.operands[index]
        dt == Operand_data_type(op)
        out(m1, v) == [m |-> m1, val |-> v]
        reg == m.r[op.register]
        n == CASE dt \in {"Word", "UWord"} -> 4
               [] dt \in {"Half", "UHalf"} -> 2
               [] OTHER -> 1
        loaded(eff) ==
            CASE dt \in {"Word", "UWord"} -> read_word(m.mem, eff)
              [] dt = "Half" -> sign_extend_halfword(read_half(m.mem, eff))
              [] dt = "UHalf" -> <<0, read_half(m.mem, eff)>>
              [] dt = "Byte" -> <<0, read_byte(m.mem, eff)>>
              [] dt = "SByte" -> sign_extend_byte(read_byte(m.mem, eff))
              [] OTHER -> <<0, 0>>
        from_memory(e) ==
            IF e.err # "Ok" THEN out(e, <<0, 0>>)
            ELSE IF dt = "None" THEN out(Fail(e, "IllegalOpcode"), <<0, 0>>)
            ELSE out(bus_read(e, usize(e.ir.operands[index].data), n),
                     loaded(usize(e.ir.operands[index].data)))
    IN  IF m.err # "Ok" THEN out(m, <<0, 0>>)
        ELSE CASE op.mode = "Register" ->
                    IF op.register < 0 THEN out(Fail(m, "IllegalOpcode"), <<0, 0>>)
                    ELSE CASE dt \in {"Word", "UWord"} -> out(m, reg)
                           [] dt = "Half" -> out(m, sign_extend_halfword(reg[2]))
                           [] dt = "UHalf" -> out(m, <<0, reg[2]>>)
                           [] dt = "Byte" -> out(m, <<0, reg[2] % 256>>)
                           [] dt = "SByte" -> out(m, sign_extend_byte(reg[2] % 256))
                           [] OTHER -> out(Fail(m, "IllegalOpcode"), <<0, 0>>)
               [] op.mode \in {"PositiveLiteral", "NegativeLiteral"} ->
                    out(m, sign_extend_byte(op.embedded[2] % 256))
               [] op.mode = "WordImmediate" -> out(m, op.embedded)
               [] op.mode = "HalfwordImmediate" ->
                    out(m, sign_extend_halfword(op.embedded[2]))
               [] op.mode = "ByteImmediate" ->
                    out(m, sign_extend_byte(op.embedded[2] % 256))
               [] OTHER -> from_memory(effective_address(m, index))

\* write_op that refuses a Register-mode store to the PSW, PCBP or ISP
write_op_sparing(m, index, val) ==
    LET op == m.ir.operands[index]
        dt == Operand_data_type(op)
        to_memory(e) ==
            CASE dt \in {"UWord", "Word"} ->
                    bus_write_word(e, usize(e.ir.operands[index].data), val)
              [] dt \in {"Half", "UHalf"} ->
                    bus_write_half(e, usize(e.ir.operands[index].data), val[2])
              [] dt \in {"Byte", "SByte"} ->
                    bus_write_byte(e, usize(e.ir.operands[index].data), val[2] % 256)
              [] OTHER -> IF e.err # "Ok" THEN e ELSE Fail(e, "IllegalOpcode")
        written(stored) ==
            IF stored.err # "Ok" THEN stored
            ELSE [stored EXCEPT !.ir.operands[index].data = val]
    IN  IF m.err # "Ok" THEN m
        ELSE CASE op.mode = "Register" ->
                    IF op.register < 0 THEN Fail(m, "IllegalOpcode")
                    ELSE IF op.register \in {R_PSW, R_PCBP, R_ISP} THEN written(m)
                    ELSE written(SetReg(m, op.register, val))
               [] op.mode \in {"NegativeLiteral", "PositiveLiteral", "ByteImmediate",
                               "HalfwordImmediate", "WordImmediate"} ->
                    Fail(m, "IllegalOpcode")
               [] OTHER -> written(to_memory(effective_address(m, index)))

\* write_op that stores into a register at the operand's width, keeping the
\* register's upper bits
write_op_at_width(m, index, val) ==
    LET op == m.ir.operands[index]
        dt == Operand_data_type(op)
        merged(old) ==
            CASE dt \in {"Half", "UHalf"} -> <<old[1], val[2]>>
              [] dt \in {"Byte", "SByte"} -> <<old[1], (old[2] \div 256) * 256 + (val[2] % 256)>>
              [] OTHER -> val
        to_memory(e) ==
            CASE dt \in {"UWord", "Word"} ->
                    bus_write_word(e, usize(e.ir.operands[index].data), val)
              [] dt \in {"Half", "UHalf"} ->
                    bus_write_half(e, usize(e.ir.operands[index].data), val[2])
              [] dt \in {"Byte", "SByte"} ->
                    bus_write_byte(e, usize(e.ir.operands[index].data), val[2] % 256)
              [] OTHER -> IF e.err # "Ok" THEN e ELSE Fail(e, "IllegalOpcode")
        written(stored) ==
            IF stored.err # "Ok" THEN stored
            ELSE [stored EXCEPT !.ir.operands[index].data = val]
    IN  IF m.err # "Ok" THEN m
        ELSE CASE op.mode = "Register" ->
                    IF op.register < 0 THEN Fail(m, "IllegalOpcode")
                    ELSE written(SetReg(m, op.register, merged(m.r[op.register])))
               [] op.mode \in {"NegativeLiteral", "PositiveLiteral", "ByteImmediate",
                               "HalfwordImmediate", "WordImmediate"} ->
                    Fail(m, "IllegalOpcode")
               [] OTHER -> written(to_memory(effective_address(m, index)))

write_op(m, index, val) ==
    LET op == m.ir.operands[index]
        dt == Operand_data_type(op)
        to_memory(e) ==
            CASE dt \in {"UWord", "Word"} ->
                    bus_write_word(e, usize(e.ir.operands[index].data), val)
              [] dt \in {"Half", "UHalf"} ->
                    bus_write_half(e, usize(e.ir.operands[index].data), val[2])
              [] dt \in {"Byte", "SByte"} ->
                    bus_write_byte(e, usize(e.ir.operands[index].data), val[2] % 256)
              [] OTHER -> IF e.err # "Ok" THEN e ELSE Fail(e, "IllegalOpcode")
        written(stored) ==
            IF stored.err # "Ok" THEN stored
            ELSE [stored EXCEPT !.ir.operands[index].data = val]
    IN  IF m.err # "Ok" THEN m
        ELSE CASE op.mode = "Register" ->
                    IF op.register < 0 THEN Fail(m, "IllegalOpcode")
                    ELSE written(SetReg(m, op.register, val))
               [] op.mode \in {"NegativeLiteral", "PositiveLiteral", "ByteImmediate",
                               "HalfwordImmediate", "WordImmediate"} ->
                    Fail(m, "IllegalOpcode")
               [] OTHER -> written(to_memory(effective_address(m, index)))

(***************************************************************************)
(* Flags, ISC, privilege level.                                            *)
(***************************************************************************)
SetFlag(m, flag, set) ==
    IF set THEN SetReg(m, R_PSW, OrW(m.r[R_PSW], flag))
    ELSE SetReg(m, R_PSW, AndW(m.r[R_PSW], NotW(flag)))

set_c_flag(m, set) == SetFlag(m, F_C, set)
set_v_flag(m, set) == SetFlag(m, F_V, set)
set_z_flag(m, set) == SetFlag(m, F_Z, set)
set_n_flag(m, set) == SetFlag(m, F_N, set)

c_flag(m) == AndW(m.r[R_PSW], F_C) # <<0, 0>>
v_flag(m) == AndW(m.r[R_PSW], F_V) # <<0, 0>>
z_flag(m) == AndW(m.r[R_PSW], F_Z) # <<0, 0>>
n_flag(m) == AndW(m.r[R_PSW], F_N) # <<0, 0>>

\* Both switch on the operand's data_type field, not on data_type().
set_v_flag_op(m, val, index) ==
    LET dt == m.ir.operands[index].data_type
    IN  CASE dt \in {"Word", "UWord"} -> set_v_flag(m, FALSE)
          [] dt \in {"Half", "UHalf"} -> set_v_flag(m, val[1] > 0)
          [] dt \in {"Byte", "SByte"} -> set_v_flag(m, val[1] > 0 \/ val[2] > 255)
          [] OTHER -> m

set_nz_flags(m, val, index) ==
    LET dt == m.ir.operands[index].data_type
    IN  CASE dt \in {"Word", "UWord"} ->
                set_z_flag(set_n_flag(m, val[1] >= 32768), val = <<0, 0>>)
          [] dt \in {"Half", "UHalf"} ->
                set_z_flag(set_n_flag(m, val[2] >= 32768), val[2] = 0)
          [] dt \in {"Byte", "SByte"} ->
                set_z_flag(set_n_flag(m, (val[2] \div 128) % 2 = 1), val[2] % 256 = 0)
          [] OTHER -> m

\* set_isc without the mask on its argument
set_isc_unmasked(m, val) ==
    SetReg(m, R_PSW, OrW(AndW(m.r[R_PSW], NotW(F_ISC)), <<0, val * 8>>))

set_isc(m, val) ==
    SetReg(m, R_PSW, OrW(AndW(m.r[R_PSW], NotW(F_ISC)), <<0, (val % 16) * 8>>))

\* set_priv_level that overwrites CM and leaves PM alone
set_priv_level_in_place(m, val) ==
    SetReg(m, R_PSW, OrW(AndW(m.r[R_PSW], NotW(F_CM)), <<0, (val % 4) * 2048>>))

\* val: 0 = Kernel, 1 = Executive, 2 = Supervisor, 3 = User
set_priv_level(m, val) ==
    LET old_level(m0) == (m0.r[R_PSW][2] \div 2048) % 4
        pm_set(m1, old) ==
            SetReg(m1, R_PSW, OrW(AndW(m1.r[R_PSW], NotW(F_PM)), <<0, (old % 4) * 512>>))
        cm_set(m2) ==
            SetReg(m2, R_PSW, OrW(AndW(m2.r[R_PSW], NotW(F_CM)), <<0, (val % 4) * 2048>>))
    IN  cm_set(pm_set(m, old_level(m)))

\* the level read from the previous-mode field, bits 9-10
priv_level_previous(m) == (m.r[R_PSW][2] \div 512) % 4

\* 0 = Kernel, 1 = Executive, 2 = Supervisor, 3 = User
priv_level(m) == (m.r[R_PSW][2] \div 2048) % 4

\* (PSW >> 13) & 0xf
\* the IPL read from bits 13..15 alone
cpu_ipl_three_bits(m) == m.r[R_PSW][2] \div 8192

cpu_ipl(m) == (m.r[R_PSW][2] \div 8192) + 8 * (m.r[R_PSW][1] % 2)

(***************************************************************************)
(* The two stacks.                                                         *)
(***************************************************************************)
stack_push(m, val) ==
    LET m1 == bus_write_word(m, usize(m.r[R_SP]), val)
    IN  SetReg(m1, R_SP, AddW(m.r[R_SP], W(4)))

\* stack_pop reading the word at SP
stack_pop_at_sp(m) ==
    LET a == usize(m.r[R_SP])
        m1 == bus_read(m, a, 4)
    IN  [m |-> SetReg(m1, R_SP, SubW(m.r[R_SP], W(4))), val |-> read_word(m.mem, a)]

\* the machine after the pop and the value popped
stack_pop(m) ==
    LET a == usize(SubW(m.r[R_SP], W(4)))
        m1 == bus_read(m, a, 4)
    IN  [m |-> SetReg(m1, R_SP, SubW(m.r[R_SP], W(4))), val |-> read_word(m.mem, a)]

irq_push(m, val) ==
    LET m1 == bus_write_word(m, usize(m.r[R_ISP]), val)
    IN  SetReg(m1, R_ISP, AddW(m.r[R_ISP], W(4)))

irq_pop(m) ==
    LET m1 == SetReg(m, R_ISP, SubW(m.r[R_ISP], W(4)))
        a == usize(m1.r[R_ISP])
    IN  [m |-> bus_read(m1, a, 4), val |-> read_word(m.mem, a)]

(***************************************************************************)
(* The context-switch engine.  Each phase that is entered leaves a probe:  *)
(* the registers and memory it started from and those it ended with.       *)
(***************************************************************************)
Probed(m0, m1, phase, arg) ==
    IF m0.err # "Ok" THEN m1
    ELSE [m1 EXCEPT !.probe = Append(@, [phase |-> phase, arg |-> arg, err |-> m1.err,
                                         r0 |-> m0.r, mem0 |-> m0.mem,
                                         r1 |-> m1.r, mem1 |-> m1.mem])]

\* <<offset in the PCB, register>> in the order phase 1 writes them
PcbRegisters ==
    <<<<24, R_FP>>, <<28, 0>>, <<32, 1>>, <<36, 2>>, <<40, 3>>, <<44, 4>>,
      <<48, 5>>, <<52, 6>>, <<56, 7>>, <<60, 8>>, <<20, R_AP>>>>

RECURSIVE save_registers(_, _, _)
save_registers(m, pcbp, i) ==
    IF i > Len(PcbRegisters) THEN m
    ELSE save_registers(
            bus_write_word(m, usize(AddW(pcbp, W(PcbRegisters[i][1]))),
                           m.r[PcbRegisters[i][2]]),
            pcbp, i + 1)

RECURSIVE load_registers(_, _, _)
load_registers(m, pcbp, i) ==
    IF i > Len(PcbRegisters) THEN m
    ELSE LET a == usize(AddW(pcbp, W(PcbRegisters[i][1])))
         IN  load_registers(
                SetReg(bus_read(m, a, 4), PcbRegisters[i][2], read_word(m.mem, a)),
                pcbp, i + 1)

\* self.r[dst] = bus.read_word(a)?
LoadWord(m, dst, a) == SetReg(bus_read(m, a, 4), dst, read_word(m.mem, a))

\* phase 1 deciding on the R-bit of the outgoing PSW
context_switch_1_outgoing_r(m, new_pcbp) ==
    LET pcbp == m.r[R_PCBP]
        psw_saved(m4) == bus_write_word(m4, usize(pcbp), m4.r[R_PSW])
        sp_saved(m5) == bus_write_word(m5, usize(AddW(pcbp, W(8))), m5.r[R_SP])
        registers_saved(m6) ==
            IF AndW(m6.r[R_PSW], F_R) # <<0, 0>>
            THEN SetReg(save_registers(m6, pcbp, 1), R_FP, AddW(pcbp, W(52)))
            ELSE m6
        pc_saved == bus_write_word(m, usize(AddW(pcbp, W(4))), m.r[R_PC])
    IN  Probed(m, registers_saved(sp_saved(psw_saved(
                      bus_read(pc_saved, usize(new_pcbp), 4)))),
               "cs1", new_pcbp)

context_switch_1(m, new_pcbp) ==
    LET pcbp == m.r[R_PCBP]
        \* Copy the 'R' flag from the new PSW to the old PSW
        r_cleared(m1) == SetReg(m1, R_PSW, AndW(m1.r[R_PSW], NotW(F_R)))
        r_copied(m2) ==
            SetReg(bus_read(m2, usize(new_pcbp), 4), R_PSW,
                   OrW(m2.r[R_PSW], AndW(read_word(m2.mem, usize(new_pcbp)), F_R)))
        \* Save the current PSW and SP in the old PCB
        psw_saved(m4) == bus_write_word(m4, usize(pcbp), m4.r[R_PSW])
        sp_saved(m5) == bus_write_word(m5, usize(AddW(pcbp, W(8))), m5.r[R_SP])
        \* If R is set, save the current R0-R8,FP,AP in the PCB
        registers_saved(m6) ==
            IF AndW(m6.r[R_PSW], F_R) # <<0, 0>>
            THEN SetReg(save_registers(m6, pcbp, 1), R_FP, AddW(pcbp, W(52)))
            ELSE m6
        \* Save the current PC in the PCB
        pc_saved == bus_write_word(m, usize(AddW(pcbp, W(4))), m.r[R_PC])
    IN  Probed(m, registers_saved(sp_saved(psw_saved(r_copied(r_cleared(pc_saved))))),
               "cs1", new_pcbp)

\* phase 2 that steps over the initial context and leaves the I-bit set
context_switch_2_keeping_i(m, new_pcbp) ==
    LET a == usize(new_pcbp)
        a4 == usize(AddW(new_pcbp, W(4)))
        a8 == usize(AddW(new_pcbp, W(8)))
        tm_cleared(m2) == SetReg(m2, R_PSW, AndW(m2.r[R_PSW], NotW(F_TM)))
        stepped_over(m5) ==
            IF AndW(m5.r[R_PSW], F_I) # <<0, 0>>
            THEN SetReg(m5, R_PCBP, AddW(m5.r[R_PCBP], W(12)))
            ELSE m5
        psw_loaded == tm_cleared(LoadWord(SetReg(m, R_PCBP, new_pcbp), R_PSW, a))
    IN  Probed(m, stepped_over(LoadWord(LoadWord(psw_loaded, R_PC, a4), R_SP, a8)),
               "cs2", new_pcbp)

context_switch_2(m, new_pcbp) ==
    LET a == usize(new_pcbp)
        a4 == usize(AddW(new_pcbp, W(4)))
        a8 == usize(AddW(new_pcbp, W(8)))
        tm_cleared(m2) == SetReg(m2, R_PSW, AndW(m2.r[R_PSW], NotW(F_TM)))
        \* If the I-bit is set, increment the PCBP past initial context area
        i_cleared(m5) ==
            IF AndW(m5.r[R_PSW], F_I) # <<0, 0>>
            THEN SetReg(SetReg(m5, R_PSW, AndW(m5.r[R_PSW], NotW(F_I))),
                        R_PCBP, AddW(m5.r[R_PCBP], W(12)))
            ELSE m5
        \* Put new PSW, PC, and SP values from PCB into registers
        psw_loaded == tm_cleared(LoadWord(SetReg(m, R_PCBP, new_pcbp), R_PSW, a))
    IN  Probed(m, i_cleared(LoadWord(LoadWord(psw_loaded, R_PC, a4), R_SP, a8)),
               "cs2", new_pcbp)

\* the inner loop writing every word to the destination it started with
RECURSIVE block_move_keeping_destination(_)
block_move_keeping_destination(m) ==
    IF m.err # "Ok" \/ m.r[2] = <<0, 0>> THEN m
    ELSE LET a == usize(m.r[0])
             moved == bus_write_word(bus_read(m, a, 4), usize(m.r[1]), read_word(m.mem, a))
         IN  block_move_keeping_destination(
                 SetReg(SetReg(moved, 2, SubW(m.r[2], W(1))), 0, AddW(m.r[0], W(4))))

\* The inner loop of phase 3 (MOVBLW): copy r2 words from [r0] to [r1].
RECURSIVE block_move(_)
block_move(m) ==
    IF m.err # "Ok" \/ m.r[2] = <<0, 0>> THEN m
    ELSE LET a == usize(m.r[0])
             moved == bus_write_word(bus_read(m, a, 4), usize(m.r[1]), read_word(m.mem, a))
         IN  block_move(SetReg(SetReg(SetReg(moved, 2, SubW(m.r[2], W(1))),
                                      0, AddW(m.r[0], W(4))),
                               1, AddW(m.r[1], W(4))))

\* The outer loop of phase 3: one (count, destination, words...) entry a turn.
RECURSIVE block_list(_)
block_list(m) ==
    IF m.err # "Ok" \/ m.r[2] = <<0, 0>> THEN m
    ELSE LET destination == SetReg(LoadWord(m, 1, usize(m.r[0])), 0, AddW(m.r[0], W(4)))
             next_count(m2) == SetReg(LoadWord(m2, 2, usize(m2.r[0])), 0, AddW(m2.r[0], W(4)))
         IN  block_list(next_count(block_move(destination)))

context_switch_3(m) ==
    IF m.err # "Ok" THEN m
    ELSE IF AndW(m.r[R_PSW], F_R) # <<0, 0>>
    THEN LET start == AddW(m.r[R_PCBP], W(64))
             first_count == SetReg(LoadWord(SetReg(m, 0, start), 2, usize(start)),
                                   0, AddW(start, W(4)))
             skipped(m3) == SetReg(m3, 0, AddW(m3.r[0], W(4)))
         IN  Probed(m, skipped(block_list(first_count)), "cs3", <<0, 0>>)
    ELSE Probed(m, m, "cs3", <<0, 0>>)

\* .unwrap(): an error aborts the process
unwrap(m) == IF m.err # "Ok" THEN Fail(m, "Panic") ELSE m

\* PSW with ISC, TM and ET cleared, then ISC = isc and ET = et
WithIscEt(m, isc, et) ==
    SetReg(m, R_PSW,
           OrW(AndW(m.r[R_PSW], NotW(OrW(F_ISC, OrW(F_TM, F_ET)))), <<0, 8 * isc + et>>))

\* on_interrupt that saves the outgoing PSW as it stands
on_interrupt_saving_psw_unmarked(m, vector) ==
    LET va == 140 + 4 * vector
        new_pcbp == read_word(m.mem, va)
        fetched == unwrap(bus_read(Logged(m, "on_interrupt", vector, 0), va, 4))
        pushed(m1) == unwrap(irq_push(m1, m1.r[R_PCBP]))
        saved(m3) == unwrap(context_switch_1(m3, new_pcbp))
        loaded(m4) == unwrap(context_switch_2(m4, new_pcbp))
    IN  unwrap(context_switch_3(WithIscEt(loaded(saved(pushed(fetched))), 7, 3)))

on_interrupt(m, vector) ==
    LET va == 140 + 4 * vector
        new_pcbp == read_word(m.mem, va)
        fetched == unwrap(bus_read(Logged(m, "on_interrupt", vector, 0), va, 4))
        pushed(m1) == unwrap(irq_push(m1, m1.r[R_PCBP]))
        saved(m3) == unwrap(context_switch_1(m3, new_pcbp))
        loaded(m4) == unwrap(context_switch_2(m4, new_pcbp))
    IN  unwrap(context_switch_3(
            WithIscEt(loaded(saved(WithIscEt(pushed(fetched), 0, 1))), 7, 3)))

(***************************************************************************)
(* Integer division of u32 and of the signed types (`/` and `%` of Rust:   *)
(* truncation toward zero, the remainder with the sign of the dividend, a  *)
(* panic on a zero divisor and on MIN / -1).                               *)
(***************************************************************************)
\* b / a and b % a of two u32, a # 0: binary long division from bit i down
\* (each partial result is bound as a value before the next bit is taken)
RECURSIVE udivrem(_, _, _, _)
udivrem(b, a, i, acc) ==
    LET lt(x, y) == x[1] < y[1] \/ (x[1] = y[1] /\ x[2] < y[2])
        shl1(x) == <<(2 * x[1] + x[2] \div 32768) % 65536, (2 * x[2]) % 65536>>
        bit == IF i >= 16 THEN (b[1] \div (2 ^ (i - 16))) % 2 ELSE (b[2] \div (2 ^ i)) % 2
        step(shifted, carry) ==
            IF carry = 1 \/ ~lt(shifted, a)
            THEN [q |-> AddW(shl1(acc.q), <<0, 1>>), rem |-> SubW(shifted, a)]
            ELSE [q |-> shl1(acc.q), rem |-> shifted]
    IN  IF i < 0 THEN acc
        ELSE CHOOSE res \in
                 {udivrem(b, a, i - 1, nxt) :
                      nxt \in {step(AddW(shl1(acc.rem), <<0, bit>>), acc.rem[1] \div 32768)}} :
                 TRUE

\* [q |-> b / a, rem |-> b % a] of two u32
udivide(b, a) ==
    CHOOSE res \in {udivrem(bb, aa, 31, [q |-> <<0, 0>>, rem |-> <<0, 0>>]) :
                        bb \in {b}, aa \in {a}} : TRUE

\* [q |-> (b as i32 / a as i32) as u32, rem |-> (b as i32 % a as i32) as u32]
sdivide32(b, a) ==
    LET neg(x) == SubW(<<0, 0>>, x)
        abs(x) == IF x[1] >= 32768 THEN neg(x) ELSE x
        signed(d) ==
            [q |-> IF (a[1] >= 32768) # (b[1] >= 32768) THEN neg(d.q) ELSE d.q,
             rem |-> IF b[1] >= 32768 THEN neg(d.rem) ELSE d.rem]
    IN  signed(udivide(abs(b), abs(a)))

\* [q |-> (b as iN / a as iN) as u32, rem |-> (b as iN % a as iN) as u32]
\* for N = 8, 16
sdivideN(b, a, n) ==
    LET signed(x) == IF x[2] % (2 ^ n) >= 2 ^ (n - 1) THEN (x[2] % (2 ^ n)) - (2 ^ n)
                     ELSE x[2] % (2 ^ n)
        abs(k) == IF k < 0 THEN 0 - k ELSE k
        as_u32(k) == IF k < 0 THEN <<65535, 65536 + k>> ELSE <<0, k>>
        divided(x, y) ==
            [q |-> as_u32(IF (x < 0) # (y < 0) THEN 0 - (abs(x) \div abs(y))
                          ELSE abs(x) \div abs(y)),
             rem |-> as_u32(IF x < 0 THEN 0 - (abs(x) % abs(y)) ELSE abs(x) % abs(y))]
    IN  divided(signed(b), signed(a))

\* whether `/` or `%` of the destination's type panics on these operands
DivPanics(dt, a, b) ==
    CASE dt = "Word" -> a = <<0, 0>> \/ (a = <<65535, 65535>> /\ b = <<32768, 0>>)
      [] dt = "Half" -> a[2] = 0 \/ (a[2] = 65535 /\ b[2] = 32768)
      [] dt = "SByte" -> a[2] % 256 = 0 \/ (a[2] % 256 = 255 /\ b[2] % 256 = 128)
      [] dt = "UHalf" -> a[2] = 0
      [] dt = "Byte" -> a[2] % 256 = 0
      [] OTHER -> a = <<0, 0>>

div(dt, a, b) ==
    CASE dt = "Word" -> sdivide32(b, a).q
      [] dt = "Half" -> sdivideN(b, a, 16).q
      [] dt = "SByte" -> sdivideN(b, a, 8).q
      [] dt = "UHalf" -> <<0, b[2] \div a[2]>>
      [] dt = "Byte" -> <<0, (b[2] % 256) \div (a[2] % 256)>>
      [] OTHER -> udivide(b, a).q

modulo(dt, a, b) ==
    CASE dt = "Word" -> sdivide32(b, a).rem
      [] dt = "Half" -> sdivideN(b, a, 16).rem
      [] dt = "SByte" -> sdivideN(b, a, 8).rem
      [] dt = "UHalf" -> <<0, b[2] % a[2]>>
      [] dt = "Byte" -> <<0, (b[2] % 256) % (a[2] % 256)>>
      [] OTHER -> udivide(b, a).rem

(***************************************************************************)
(* The executor: one arm per opcode family of dispatch().  The result is   *)
(* the machine after the arm, the pc_increment it returns (a word: an i32  *)
(* in two's complement) and whether the arm is one this model covers.      *)
(***************************************************************************)
NoArm ==
    {"EXTOP", "GATE", "INTACK", "MOVTRW", "RETG", "RGTRU", "RLSSU", "RVC", "RVS",
     "SPOP", "SPOPRD", "SPOPRD2", "SPOPRS", "SPOPRT", "SPOPS2", "SPOPT2", "SPOPWD",
     "SPOPWS", "SPOPWT", "STRCPY", "WAIT"}

Arm(m, inc) == [m |-> m, inc |-> inc, covered |-> TRUE]

exec_MOV(m) ==
    LET moved(rd) ==
            set_v_flag_op(set_c_flag(set_nz_flags(write_op(rd.m, 1, rd.val), rd.val, 1),
                                     FALSE),
                          rd.val, 1)
    IN  moved(read_op(m, 0))

exec_CLR(m) ==
    set_v_flag(set_c_flag(set_z_flag(set_n_flag(write_op(m, 0, <<0, 0>>), FALSE), TRUE),
                          FALSE),
               FALSE)

exec_CALLPS(m) ==
    IF priv_level(m) # 0 THEN Fail(m, "PrivilegedOpcode")
    ELSE LET a == m.r[0]
             pushed == irq_push([m EXCEPT !.error_context = "ResetIntStack"], m.r[R_PCBP])
             \* Set the current PC to the start of the next instruction
             advanced(m2) == SetReg(m2, R_PC, AddW(m2.r[R_PC], W(2)))
             done(m8) == IF m8.err # "Ok" THEN m8 ELSE [m8 EXCEPT !.error_context = "None"]
         IN  done(context_switch_3(
                 WithIscEt(context_switch_2(
                               context_switch_1(WithIscEt(advanced(pushed), 0, 1), a), a),
                           7, 3)))

\* RETPS that leaves the general registers as phase 3 left them
exec_RETPS_without_reload(m) ==
    IF priv_level(m) # 0 THEN Fail(m, "PrivilegedOpcode")
    ELSE LET returned(p) ==
                 LET new_pcbp == p.val
                     a == usize(new_pcbp)
                     new_psw == read_word(p.m.mem, a)
                     r_copied(m1) ==
                         SetReg(m1, R_PSW,
                                OrW(AndW(m1.r[R_PSW], NotW(F_R)), AndW(new_psw, F_R)))
                 IN  context_switch_3(
                         context_switch_2(r_copied(bus_read(p.m, a, 4)), new_pcbp))
         IN  returned(irq_pop(m))

\* RETPS that reloads the general registers whatever the R-bit says
exec_RETPS_reloading_always(m) ==
    IF priv_level(m) # 0 THEN Fail(m, "PrivilegedOpcode")
    ELSE LET returned(p) ==
                 LET new_pcbp == p.val
                     a == usize(new_pcbp)
                     new_psw == read_word(p.m.mem, a)
                     r_copied(m1) ==
                         SetReg(m1, R_PSW,
                                OrW(AndW(m1.r[R_PSW], NotW(F_R)), AndW(new_psw, F_R)))
                 IN  load_registers(
                         context_switch_3(
                             context_switch_2(r_copied(bus_read(p.m, a, 4)), new_pcbp)),
                         new_pcbp, 1)
         IN  returned(irq_pop(m))

exec_RETPS(m) ==
    IF priv_level(m) # 0 THEN Fail(m, "PrivilegedOpcode")
    ELSE LET returned(p) ==
                 LET new_pcbp == p.val
                     a == usize(new_pcbp)
                     new_psw == read_word(p.m.mem, a)
                     r_copied(m1) ==
                         SetReg(m1, R_PSW,
                                OrW(AndW(m1.r[R_PSW], NotW(F_R)), AndW(new_psw, F_R)))
                     reloaded(m4) ==
                         IF AndW(m4.r[R_PSW], F_R) # <<0, 0>>
                         THEN load_registers(m4, new_pcbp, 1)
                         ELSE m4
                 IN  reloaded(context_switch_3(
                         context_switch_2(r_copied(bus_read(p.m, a, 4)), new_pcbp)))
         IN  returned(irq_pop(m))

exec_POPW(m) ==
    LET a == usize(m.r[R_SP]) - 4
        val == read_word(m.mem, a)
        popped(m2) == SetReg(m2, R_SP, SubW(m2.r[R_SP], W(4)))
    IN  set_v_flag(set_c_flag(set_nz_flags(popped(write_op(bus_read(m, a, 4), 0, val)),
                                           val, 0),
                              FALSE),
                   FALSE)

exec_PUSHW(m) ==
    LET pushed(rd) ==
            set_v_flag(set_c_flag(set_nz_flags(stack_push(rd.m, rd.val), rd.val, 0), FALSE),
                       FALSE)
    IN  pushed(read_op(m, 0))

exec_JMP(m) ==
    LET jumped(e) == SetReg(e, R_PC, e.ir.operands[0].data)
    IN  jumped(effective_address(m, 0))

exec_JSB(m, pc_increment) ==
    exec_JMP(stack_push(m, AddW(m.r[R_PC], pc_increment)))

exec_RSB(m) ==
    LET returned(p) == SetReg(p.m, R_PC, p.val)
    IN  returned(stack_pop(m))

exec_CALL(m, pc_increment) ==
    LET called(e) ==
            LET a == e.ir.operands[0].data
                b == e.ir.operands[1].data
                return_pc == AddW(e.r[R_PC], pc_increment)
                ap_stored == bus_write_word(e, usize(AddW(e.r[R_SP], W(4))), e.r[R_AP])
                pc_stored(m1) == bus_write_word(m1, usize(m1.r[R_SP]), return_pc)
                moved(m2) == SetReg(m2, R_SP, AddW(m2.r[R_SP], W(8)))
            IN  SetReg(SetReg(moved(pc_stored(ap_stored)), R_PC, b), R_AP, a)
    IN  called(effective_address(effective_address(m, 0), 1))

\* RET that leaves SP where it was
exec_RET_keeping_sp(m) ==
    LET returned(m2) ==
            SetReg(SetReg(m2, R_AP, read_word(m.mem, usize(SubW(m.r[R_SP], W(4))))),
                   R_PC, read_word(m.mem, usize(SubW(m.r[R_SP], W(8)))))
    IN  returned(bus_read(bus_read(m, usize(SubW(m.r[R_SP], W(4))), 4),
                          usize(SubW(m.r[R_SP], W(8))), 4))

exec_RET(m) ==
    LET a == m.r[R_AP]
        b == read_word(m.mem, usize(SubW(m.r[R_SP], W(4))))
        c == read_word(m.mem, usize(SubW(m.r[R_SP], W(8))))
        returned(m2) == SetReg(SetReg(SetReg(m2, R_AP, b), R_PC, c), R_SP, a)
    IN  returned(bus_read(bus_read(m, usize(SubW(m.r[R_SP], W(4))), 4),
                          usize(SubW(m.r[R_SP], W(8))), 4))

exec_SAVE(m) ==
    LET RECURSIVE saved(_, _, _)
        saved(m1, rr, stack_offset) ==
            IF rr >= R_FP THEN m1
            ELSE saved(bus_write_word(m1, usize(m1.r[R_SP]) + stack_offset, m1.r[rr]),
                       rr + 1, stack_offset + 4)
        framed(m2) ==
            IF m2.err # "Ok" THEN m2
            ELSE [m2 EXCEPT !.r[R_SP] = AddW(@, W(28)), !.r[R_FP] = AddW(m2.r[R_SP], W(28))]
        fp_stored == bus_write_word(m, usize(m.r[R_SP]), m.r[R_FP])
    IN  IF fp_stored.err # "Ok" THEN fp_stored
        ELSE IF m.ir.operands[0].register < 0 THEN Fail(fp_stored, "IllegalOpcode")
        ELSE framed(saved(fp_stored, m.ir.operands[0].register, 4))

\* RESTORE that leaves the frame pointer where it was
exec_RESTORE_keeping_fp(m) ==
    LET a == SubW(m.r[R_FP], W(28))
        RECURSIVE restored(_, _, _)
        restored(m1, rr, c) ==
            IF rr >= R_FP THEN m1
            ELSE restored(LoadWord(m1, rr, usize(c)), rr + 1, AddW(c, W(4)))
        fp_read == bus_read(m, usize(a), 4)
    IN  IF fp_read.err # "Ok" THEN fp_read
        ELSE IF m.ir.operands[0].register < 0 THEN Fail(fp_read, "IllegalOpcode")
        ELSE SetReg(restored(fp_read, m.ir.operands[0].register, SubW(m.r[R_FP], W(24))),
                    R_SP, a)

exec_RESTORE(m) ==
    LET a == SubW(m.r[R_FP], W(28))
        b == read_word(m.mem, usize(a))
        RECURSIVE restored(_, _, _)
        restored(m1, rr, c) ==
            IF rr >= R_FP THEN m1
            ELSE restored(LoadWord(m1, rr, usize(c)), rr + 1, AddW(c, W(4)))
        fp_read == bus_read(m, usize(a), 4)
    IN  IF fp_read.err # "Ok" THEN fp_read
        ELSE IF m.ir.operands[0].register < 0 THEN Fail(fp_read, "IllegalOpcode")
        ELSE SetReg(SetReg(restored(fp_read, m.ir.operands[0].register,
                                    SubW(m.r[R_FP], W(24))),
                           R_FP, b),
                    R_SP, a)

\* result is the u64 sum: its low word AddW(a, b), its bit 32 the carry
add(m, a, b, dst) ==
    LET xor(x, y) == AndW(OrW(x, y), NotW(AndW(x, y)))
        low == AddW(a, b)
        bit32 == a[1] + b[1] + (a[2] + b[2]) \div 65536 >= 65536
        overflow == AndW(xor(a, NotW(b)), xor(a, low))
        flagged(m2, dt) ==
            CASE dt \in {"Word", "UWord"} ->
                    set_v_flag(set_c_flag(m2, bit32), overflow[1] >= 32768)
              [] dt \in {"Half", "UHalf"} ->
                    set_v_flag(set_c_flag(m2, bit32 \/ low[1] > 0), overflow[2] >= 32768)
              [] dt \in {"Byte", "SByte"} ->
                    set_v_flag(set_c_flag(m2, bit32 \/ low[1] > 0 \/ low[2] > 255),
                               (overflow[2] \div 128) % 2 = 1)
              [] OTHER -> IF m2.err # "Ok" THEN m2 ELSE Fail(m2, "IllegalOpcode")
    IN  flagged(set_nz_flags(write_op(m, dst, low), low, dst),
                Operand_data_type(m.ir.operands[dst]))

\* result is the u64 difference, of which only the low word SubW(a, b) is used
sub(m, a, b, dst) ==
    LET low == SubW(a, b)
    IN  set_v_flag_op(set_c_flag(set_nz_flags(write_op(m, dst, low), low, dst),
                                 b[1] > a[1] \/ (b[1] = a[1] /\ b[2] > a[2])),
                      low, dst)

exec_ADD(m, dst) ==
    LET second(ra) ==
            LET added(rb) == add(rb.m, ra.val, rb.val, dst)
            IN  added(read_op(ra.m, 1))
    IN  second(read_op(m, 0))

exec_INC(m) ==
    LET added(ra) == add(ra.m, ra.val, <<0, 1>>, 0)
    IN  added(read_op(m, 0))

\* DIVW2 .. DIVB3: `ones` and `min` are the operand pair the arm flags as an
\* overflow, dst the operand the quotient is written to
exec_DIV(m, ones, min, dst) ==
    LET written(m3, result) ==
            set_c_flag(set_nz_flags(write_op(m3, dst, result), result, dst), FALSE)
        divided(m2, a, b) ==
            IF DivPanics(m2.ir.operands[1].data_type, a, b) THEN Fail(m2, "Panic")
            ELSE written(m2, div(m2.ir.operands[1].data_type, a, b))
        checked(rb, a) ==
            IF rb.m.err # "Ok" THEN rb.m
            ELSE IF a = <<0, 0>> THEN Fail(rb.m, "IntegerZeroDivide")
            ELSE divided(IF a = ones /\ rb.val = min THEN set_v_flag(rb.m, TRUE) ELSE rb.m,
                         a, rb.val)
        second(ra) == checked(read_op(ra.m, 1), ra.val)
    IN  second(read_op(m, 0))

\* MOD that takes a zero divisor for a remainder of zero
exec_MOD_unchecked(m, dst) ==
    LET written(m3, result) ==
            set_v_flag_op(set_c_flag(set_nz_flags(write_op(m3, dst, result), result, dst),
                                     FALSE),
                          result, dst)
        checked(rb, a) ==
            IF rb.m.err # "Ok" THEN rb.m
            ELSE IF a = <<0, 0>> THEN written(rb.m, <<0, 0>>)
            ELSE IF DivPanics(rb.m.ir.operands[1].data_type, a, rb.val)
            THEN Fail(rb.m, "Panic")
            ELSE written(rb.m, modulo(rb.m.ir.operands[1].data_type, a, rb.val))
        second(ra) == checked(read_op(ra.m, 1), ra.val)
    IN  second(read_op(m, 0))

exec_MOD(m, dst) ==
    LET written(m3, result) ==
            set_v_flag_op(set_c_flag(set_nz_flags(write_op(m3, dst, result), result, dst),
                                     FALSE),
                          result, dst)
        checked(rb, a) ==
            IF rb.m.err # "Ok" THEN rb.m
            ELSE IF a = <<0, 0>> THEN Fail(rb.m, "IntegerZeroDivide")
            ELSE IF DivPanics(rb.m.ir.operands[1].data_type, a, rb.val)
            THEN Fail(rb.m, "Panic")
            ELSE written(rb.m, modulo(rb.m.ir.operands[1].data_type, a, rb.val))
        second(ra) == checked(read_op(ra.m, 1), ra.val)
    IN  second(read_op(m, 0))

\* EXTFW, EXTFH, EXTFB
exec_EXTF(m) ==
    LET ones(width) == IF width >= 32 THEN <<65535, 65535>>
                       ELSE SubW(shl(<<0, 1>>, width), <<0, 1>>)
        mask(width, offset) ==
            IF width + offset > 32
            THEN OrW(shl(ones(width), offset), shl(<<0, 1>>, width + offset - 32 - 1))
            ELSE shl(ones(width), offset)
        written(m3, a) ==
            set_v_flag_op(set_c_flag(set_nz_flags(write_op(m3, 3, a), a, 3), FALSE), a, 3)
        third(r1, width) ==
            LET offset == and16(r1.val[2], 31, 5)
                extracted(r2) ==
                    written(r2.m, shr(AndW(r2.val, mask(width, offset)), offset))
            IN  extracted(read_op(r1.m, 2))
        second(r0) == third(read_op(r0.m, 1), and16(r0.val[2], 31, 5) + 1)
    IN  second(read_op(m, 0))

\* INSF that does not cut the source down to the field's width
exec_INSF_unmasked(m) ==
    LET ones(width) == IF width >= 32 THEN <<65535, 65535>>
                       ELSE SubW(shl(<<0, 1>>, width), <<0, 1>>)
        written(m4, b) ==
            set_v_flag_op(set_c_flag(set_nz_flags(write_op(m4, 3, b), b, 3), FALSE), b, 3)
        third(r1, width) ==
            LET offset == and16(r1.val[2], 31, 5)
                fourth(r2) ==
                    LET inserted(r3) ==
                            written(r3.m,
                                    OrW(AndW(r3.val, NotW(shl(ones(width), offset))),
                                        shl(r2.val, offset)))
                    IN  inserted(read_op(r2.m, 3))
            IN  fourth(read_op(r1.m, 2))
        second(r0) == third(read_op(r0.m, 1), and16(r0.val[2], 31, 5) + 1)
    IN  second(read_op(m, 0))

\* INSFW, INSFH, INSFB
exec_INSF(m) ==
    LET ones(width) == IF width >= 32 THEN <<65535, 65535>>
                       ELSE SubW(shl(<<0, 1>>, width), <<0, 1>>)
        written(m4, b) ==
            set_v_flag_op(set_c_flag(set_nz_flags(write_op(m4, 3, b), b, 3), FALSE), b, 3)
        third(r1, width) ==
            LET offset == and16(r1.val[2], 31, 5)
                fourth(r2) ==
                    LET inserted(r3) ==
                            written(r3.m,
                                    OrW(AndW(r3.val, NotW(shl(ones(width), offset))),
                                        shl(AndW(r2.val, ones(width)), offset)))
                    IN  inserted(read_op(r2.m, 3))
            IN  fourth(read_op(r1.m, 2))
        second(r0) == third(read_op(r0.m, 1), and16(r0.val[2], 31, 5) + 1)
    IN  second(read_op(m, 0))

execute(m) ==
    LET name == m.ir.name
        pc_increment == W(m.ir.bytes)
        \* sign_extend_halfword / sign_extend_byte of operand 0's embedded value
        half == sign_extend_halfword(m.ir.operands[0].embedded[2])
        byte == sign_extend_byte(m.ir.operands[0].embedded[2] % 256)
        branch(taken, offset) == Arm(m, IF taken THEN offset ELSE pc_increment)
        subroutine(offset) ==
            Arm(stack_push(m, AddW(m.r[R_PC], pc_increment)), offset)
        return(taken) ==
            IF taken THEN Arm(exec_RSB(m), <<0, 0>>) ELSE Arm(m, pc_increment)
        \* SUBx2, SUBx3: a is operand 1, b is operand 0
        subtract(dst) ==
            LET second(ra) ==
                    LET done(rb) == sub(rb.m, ra.val, rb.val, dst)
                    IN  done(read_op(ra.m, 0))
            IN  second(read_op(m, 1))
        decrement ==
            LET done(ra) == sub(ra.m, ra.val, <<0, 1>>, 0)
            IN  done(read_op(m, 0))
    IN  IF m.err # "Ok" THEN Arm(m, <<0, 0>>)
        ELSE CASE name = "NOP" -> Arm(m, W(1))
               [] name = "BEH" -> branch(z_flag(m), half)
               [] name = "BEB" -> branch(z_flag(m), byte)
               [] name = "BGH" -> branch(~(n_flag(m) \/ z_flag(m)), half)
               [] name = "BGB" -> branch(~(n_flag(m) \/ z_flag(m)), byte)
               [] name = "BGEH" -> branch(~n_flag(m) \/ z_flag(m), half)
               [] name = "BGEB" -> branch(~n_flag(m) \/ z_flag(m), byte)
               [] name = "BGEUH" -> branch(~c_flag(m), half)
               [] name = "BGEUB" -> branch(~c_flag(m), byte)
               [] name = "BGUH" -> branch(~(c_flag(m) \/ z_flag(m)), half)
               [] name = "BGUB" -> branch(~(c_flag(m) \/ z_flag(m)), byte)
               [] name = "BLH" -> branch(n_flag(m) /\ ~z_flag(m), half)
               [] name = "BLB" -> branch(n_flag(m) /\ ~z_flag(m), byte)
               [] name = "BLEH" -> branch(n_flag(m) \/ z_flag(m), half)
               [] name = "BLEB" -> branch(n_flag(m) \/ z_flag(m), byte)
               [] name = "BLEUH" -> branch(c_flag(m) \/ z_flag(m), half)
               [] name = "BLEUB" -> branch(c_flag(m) \/ z_flag(m), byte)
               [] name = "BLUH" -> branch(c_flag(m), half)
               [] name = "BLUB" -> branch(c_flag(m), byte)
               [] name = "BNEH" -> branch(~z_flag(m), half)
               [] name = "BNEB" -> branch(~z_flag(m), byte)
               [] name = "BRH" -> branch(TRUE, half)
               [] name = "BRB" -> branch(TRUE, byte)
               [] name = "BSBH" -> subroutine(half)
               [] name = "BSBB" -> subroutine(byte)
               [] name = "BVCH" -> branch(~v_flag(m), half)
               [] name = "BVCB" -> branch(~v_flag(m), byte)
               [] name = "BVSH" -> branch(v_flag(m), half)
               [] name = "BVSB" -> branch(v_flag(m), byte)
               [] name = "RGEQ" -> return(~n_flag(m) \/ z_flag(m))
               [] name = "RGEQU" -> return(~c_flag(m))
               [] name = "RGTR" -> return(~n_flag(m) /\ ~z_flag(m))
               [] name \in {"RNEQ", "RNEQU"} -> return(~z_flag(m))
               [] name = "RLEQ" -> return(n_flag(m) \/ z_flag(m))
               [] name = "RLEQU" -> return(c_flag(m) \/ z_flag(m))
               [] name = "RLSS" -> return(n_flag(m) \/ ~z_flag(m))
               [] name \in {"REQL", "REQLU"} -> return(z_flag(m))
               [] name = "NOP2" -> Arm(m, W(2))
               [] name = "NOP3" -> Arm(m, W(3))
               [] name \in {"BPT", "halt"} -> Arm(Fail(m, "Panic"), pc_increment)
               [] name = "CFLUSH" -> Arm(m, pc_increment)
               [] name = "CALLPS" -> Arm(exec_CALLPS(m), <<0, 0>>)
               [] name = "CALL" -> Arm(exec_CALL(m, pc_increment), <<0, 0>>)
               [] name \in {"CLRW", "CLRH", "CLRB"} -> Arm(exec_CLR(m), pc_increment)
               [] name = "MVERNO" -> Arm(SetReg(m, 0, W(WE32100_VERSION)), pc_increment)
               [] name \in {"ADDW2", "ADDH2", "ADDB2"} -> Arm(exec_ADD(m, 1), pc_increment)
               [] name \in {"ADDW3", "ADDH3", "ADDB3"} -> Arm(exec_ADD(m, 2), pc_increment)
               [] name \in {"INCW", "INCH", "INCB"} -> Arm(exec_INC(m), pc_increment)
               [] name \in {"DECW", "DECH", "DECB"} -> Arm(decrement, pc_increment)
               [] name \in {"EXTFW", "EXTFH", "EXTFB"} -> Arm(exec_EXTF(m), pc_increment)
               [] name \in {"INSFW", "INSFH", "INSFB"} -> Arm(exec_INSF(m), pc_increment)
               [] name \in {"SUBW2", "SUBH2", "SUBB2"} -> Arm(subtract(1), pc_increment)
               [] name \in {"SUBW3", "SUBH3", "SUBB3"} -> Arm(subtract(2), pc_increment)
               [] name = "DIVW2" ->
                    Arm(exec_DIV(m, <<65535, 65535>>, <<32768, 0>>, 1), pc_increment)
               [] name = "DIVH2" -> Arm(exec_DIV(m, <<0, 65535>>, <<0, 32768>>, 1), pc_increment)
               [] name = "DIVB2" -> Arm(exec_DIV(m, <<0, 255>>, <<0, 128>>, 1), pc_increment)
               [] name = "DIVW3" ->
                    Arm(exec_DIV(m, <<65535, 65535>>, <<32768, 0>>, 2), pc_increment)
               [] name = "DIVH3" -> Arm(exec_DIV(m, <<0, 65535>>, <<0, 32768>>, 2), pc_increment)
               [] name = "DIVB3" -> Arm(exec_DIV(m, <<0, 255>>, <<0, 128>>, 2), pc_increment)
               [] name \in {"MODW2", "MODH2", "MODB2"} -> Arm(exec_MOD(m, 1), pc_increment)
               [] name \in {"MODW3", "MODH3", "MODB3"} -> Arm(exec_MOD(m, 2), pc_increment)
               [] name \in {"ENBVJMP", "DISVJMP"} ->
                    IF priv_level(m) # 0 THEN Arm(Fail(m, "PrivilegedOpcode"), <<0, 0>>)
                    ELSE Arm(SetReg(m, R_PC, m.r[0]), <<0, 0>>)
               [] name = "JMP" -> Arm(exec_JMP(m), <<0, 0>>)
               [] name = "JSB" -> Arm(exec_JSB(m, pc_increment), <<0, 0>>)
               [] name \in {"MOVB", "MOVH", "MOVW"} -> Arm(exec_MOV(m), pc_increment)
               [] name = "POPW" -> Arm(exec_POPW(m), pc_increment)
               [] name = "PUSHW" -> Arm(exec_PUSHW(m), pc_increment)
               [] name = "RESTORE" -> Arm(exec_RESTORE(m), pc_increment)
               [] name = "RET" -> Arm(exec_RET(m), <<0, 0>>)
               [] name = "RSB" -> Arm(exec_RSB(m), <<0, 0>>)
               [] name = "RETPS" -> Arm(exec_RETPS(m), <<0, 0>>)
               [] name = "SAVE" -> Arm(exec_SAVE(m), pc_increment)
               [] name \in NoArm -> Arm(Fail(m, "IllegalOpcode"), pc_increment)
               [] OTHER -> [m |-> m, inc |-> pc_increment, covered |-> FALSE]

(***************************************************************************)
(* The step loop.  `interrupt` is what bus.get_interrupts() answers: -1    *)
(* for None, else the u8.                                                  *)
(***************************************************************************)
\* dispatch that decodes the instruction before it asks for interrupts
dispatch_decode_first(m, interrupt) ==
    LET serviced == Logged([m EXCEPT !.steps = @ + 1], "service", 0, 0)
        polled(m2) == IF interrupt >= 0 /\ cpu_ipl(m2) < IPL_TABLE[interrupt % 64]
                      THEN on_interrupt(m2, 63 - (interrupt % 64)) ELSE m2
        decoded(m3) == Probed(m3, decode_instruction(m3), "decode", <<0, 0>>)
    IN  execute(polled(Logged(decoded(serviced), "get_interrupts", 0, 0)))

dispatch(m, interrupt) ==
    LET \* Update anything that needs updating.
        serviced == Logged([m EXCEPT !.steps = @ + 1], "service", 0, 0)
        polled(m2) ==
            IF interrupt >= 0 /\ cpu_ipl(m2) < IPL_TABLE[interrupt % 64]
            THEN on_interrupt(m2, 63 - (interrupt % 64))
            ELSE m2
        decoded(m3) == Probed(m3, decode_instruction(m3), "decode", <<0, 0>>)
    IN  execute(decoded(polled(Logged(serviced, "get_interrupts", 0, 0))))

\* step_with_error: the machine after the call
step_with_error(m, interrupt) ==
    LET advanced(d) == [d EXCEPT !.m = SetReg(d.m, R_PC, AddW(d.m.r[R_PC], d.inc))]
    IN  advanced(dispatch(m, interrupt))

\* step that adds the increment whether or not the instruction failed
step_advancing(m, interrupt) ==
    LET advanced(d) == [d EXCEPT !.m.r[R_PC] = AddW(@, d.inc)]
        swallowed(d) == IF d.m.err = "Panic" THEN d ELSE [d EXCEPT !.m.err = "Ok"]
    IN  swallowed(advanced(dispatch(m, interrupt)))

\* step: the machine after the call; every Err arm is empty and the call
\* returns nothing, so the error is gone (a panic is not an Err)
step(m, interrupt) ==
    LET advanced(d) == [d EXCEPT !.m = SetReg(d.m, R_PC, AddW(d.m.r[R_PC], d.inc))]
        swallowed(d) == IF d.m.err = "Panic" THEN d ELSE [d EXCEPT !.m.err = "Ok"]
    IN  swallowed(advanced(dispatch(m, interrupt)))

\* reset that loads the PCB the way phase 2 of a context switch does (TM cleared)
Cpu_reset_clearing_tm(m) ==
    LET pcb_loaded(m1) ==
            LoadWord(LoadWord(LoadWord(m1, R_PSW, usize(m1.r[R_PCBP])),
                              R_PC, usize(m1.r[R_PCBP]) + 4),
                     R_SP, usize(m1.r[R_PCBP]) + 8)
        i_cleared(m4) ==
            IF AndW(m4.r[R_PSW], F_I) # <<0, 0>>
            THEN SetReg(SetReg(m4, R_PSW, AndW(m4.r[R_PSW], NotW(OrW(F_I, F_TM)))),
                        R_PCBP, AddW(m4.r[R_PCBP], W(12)))
            ELSE SetReg(m4, R_PSW, AndW(m4.r[R_PSW], NotW(F_TM)))
    IN  set_isc(i_cleared(pcb_loaded(LoadWord(m, R_PCBP, 128))), 3)

Cpu_reset(m) ==
    LET pcb_loaded(m1) ==
            LoadWord(LoadWord(LoadWord(m1, R_PSW, usize(m1.r[R_PCBP])),
                              R_PC, usize(m1.r[R_PCBP]) + 4),
                     R_SP, usize(m1.r[R_PCBP]) + 8)
        i_cleared(m4) ==
            IF AndW(m4.r[R_PSW], F_I) # <<0, 0>>
            THEN SetReg(SetReg(m4, R_PSW, AndW(m4.r[R_PSW], NotW(F_I))),
                        R_PCBP, AddW(m4.r[R_PCBP], W(12)))
            ELSE m4
    IN  set_isc(i_cleared(pcb_loaded(LoadWord(m, R_PCBP, 128))), 3)

(***************************************************************************)
(* The system under the host: a memory image is loaded, the host may set   *)
(* the registers (Cpu.r is pub) or reset the CPU, and then steps it.  The  *)
(* interrupt input changes in bus.service(), that is at the top of every   *)
(* step, to any value of IrqInputs.                                        *)
(***************************************************************************)
MaxSteps == 2

WordBytes(w) == <<w[1] \div 256, w[1] % 256, w[2] \div 256, w[2] % 256>>

\* Where things live in the images (byte addresses).
Layout ==
    [reset_pcb |-> 512, handler_pcb |-> 768, process_pcb |-> 1024,
     int_stack |-> 1280, stack |-> 1536, handler_stack |-> 1664,
     code |-> 1792, handler_code |-> 1920, block_dest |-> 1776]

\* -1 = no interrupt pending; 64 selects IPL_TABLE[0]; 62 -> vector 1, level
\* 15; 5 -> vector 58, level 14.
IrqInputs == {-1, 64, 62, 5}

\* The descriptor bytes decode_descriptor_operand rejects.
ReservedDescriptors ==
    {16 * md + 11 : md \in {5, 8, 9, 10, 11, 12, 13}}
    \cup {224 + rr : rr \in {1, 5, 8, 9, 10, 11, 12, 13, 14}}

Programs ==
    {<<112, 112>>,                           \* NOP; NOP
     <<132, 64, 75>>,                        \* MOVW %r0,%psw
     <<132, 64, 77>>,                        \* MOVW %r0,%pcbp
     <<132, 64, 78>>,                        \* MOVW %r0,%isp
     <<32, 77>>,                             \* POPW %pcbp
     <<132, 79, 120, 86, 52, 18, 67>>,       \* MOVW &0x12345678,%r3
     <<135, 231, 64, 226, 193, 4>>,          \* MOVB {sbyte}%r0,{uhalf}4(%r1)
     <<48, 172>>,                            \* CALLPS
     <<48, 200>>,                            \* RETPS
     <<160, 64, 112>>,                       \* PUSHW %r0; NOP
     <<132, 64, 225>>,                       \* MOVW %r0,<reserved 0xE1>
     <<132, 224, 91>>,                       \* MOVW {uword}<reserved 0x5B>,...
     <<1>>,                                  \* not an opcode
     <<48, 0>>,                              \* not an opcode (two bytes)
     <<47>>}                                 \* WAIT: in the table, no arm
    \cup {<<132, d, 64>> : d \in ReservedDescriptors}   \* MOVW <reserved>,%r0
    \* DIV and MOD: a literal zero divisor under each opcode, a zero divisor
    \* read from memory, a dividend that cannot be read, divisors that are not 0
    \cup {<<op, 0, 65>> : op \in {172, 174, 175, 164, 166, 167}}       \* DIVW2 &0,%r1 ..
    \cup {<<op, 0, 65, 66>> : op \in {236, 238, 239, 228, 230, 231}} \* DIVW3 &0,%r1,%r2 ..
    \cup {<<172, 127, 240, 6, 0, 0, 65>>,    \* DIVW2 $0x6f0,%r1
          <<172, 0, 81>>,                    \* DIVW2 &0,(%r1)
          <<164, 0, 81>>,                    \* MODW2 &0,(%r1)
          <<172, 2, 65>>,                    \* DIVW2 &2,%r1
          <<174, 255, 65>>,                  \* DIVH2 &-1,%r1
          <<164, 3, 65>>,                    \* MODW2 &3,%r1
          <<231, 5, 65, 66>>}                \* MODB3 &5,%r1,%r2
    \cup {<<132, 64, 81>>}                   \* MOVW %r0,(%r1)
    \* ADD and INC at each width, and to a destination of an expanded type
    \cup {<<220, 79, 255, 255, 255, 127, 1, 67>>,   \* ADDW3 &0x7fffffff,&1,%r3
          <<220, 255, 1, 67>>,                      \* ADDW3 &-1,&1,%r3
          <<156, 5, 65>>,                           \* ADDW2 &5,%r1
          <<222, 95, 255, 127, 1, 67>>,             \* ADDH3 &0x7fff,&1,%r3
          <<222, 254, 1, 67>>,                      \* ADDH3 &-2,&1,%r3
          <<223, 111, 127, 1, 67>>,                 \* ADDB3 &0x7f,&1,%r3
          <<159, 255, 65>>,                         \* ADDB2 &-1,%r1
          <<144, 65>>,                              \* INCW %r1
          <<146, 127, 240, 6, 0, 0>>,               \* INCH $0x6f0
          <<147, 65>>,                              \* INCB %r1
          <<156, 111, 127, 231, 65>>}               \* ADDW2 &0x7f,{sbyte}%r1
    \cup {<<48, 13>>, <<48, 19>>}            \* ENBVJMP, DISVJMP
    \cup {<<46>>, <<0>>}                     \* BPT, HALT
    \cup {<<52, 239, 240, 6, 0, 0>>,         \* JSB *$0x6f0
          <<52, 64>>}                        \* JSB %r0: no effective address

HandlerPrograms == {<<48, 200>>, <<112>>, <<1>>}

\* PSW of the handler's PCB: kernel, level 15, and R clear / R set / I set.
HandlerPsws == {<<1, 57344>>, <<1, 57600>>, <<1, 57472>>}

\* The handler PCB's block list: empty, or one word to move.
BlockLists ==
    {<<0, 0, 0, 0>>,
     <<0, 0, 0, 1>> \o WordBytes(W(Layout.block_dest)) \o <<202, 254, 186, 190>>
                   \o <<0, 0, 0, 0>>}

Image(prog, hprog, hpsw, blk) ==
    LET L == Layout
        m1 == load(<<>>, 128, WordBytes(W(L.reset_pcb)))
        m2 == load(m1, 140 + 4 * 1, WordBytes(W(L.handler_pcb)))
        m3 == load(m2, 140 + 4 * 58, WordBytes(W(L.handler_pcb)))
        m4 == load(m3, L.reset_pcb,
                   WordBytes(<<0, 0>>) \o WordBytes(W(L.code)) \o WordBytes(W(L.stack)))
        m5 == load(m4, L.handler_pcb,
                   WordBytes(hpsw) \o WordBytes(W(L.handler_code))
                                   \o WordBytes(W(L.handler_stack)))
        off == IF AndW(hpsw, F_I) # <<0, 0>> THEN 12 ELSE 0
        m6 == load(m5, L.handler_pcb + off + 64, blk)
        \* a process ready to be returned to: R set, its registers in its PCB
        m7 == load(m6, L.process_pcb,
                   WordBytes(<<0, 256>>) \o WordBytes(W(L.code + 16))
                                         \o WordBytes(W(L.stack + 64)))
        m8 == load(m7, L.process_pcb + 20,
                   <<0, 0, 10, 10,  0, 0, 9, 9,  0, 0, 0, 16,  0, 0, 1, 17,
                     0, 0, 2, 18,  0, 0, 3, 19,  0, 0, 4, 20,  0, 0, 5, 21,
                     0, 0, 6, 22,  0, 0, 7, 23,  0, 0, 8, 24>>)
        m9 == load(m8, L.int_stack, WordBytes(W(L.process_pcb)))
        m10 == load(m9, L.code, prog)
    IN  load(m10, L.handler_code, hprog)

\* Every program under one handler, and every handler under three programs.
Images ==
    {Image(p, <<48, 200>>, <<1, 57344>>, <<0, 0, 0, 0>>) : p \in Programs}
    \* a handler PCB whose PSW has both the I-bit and TM set
    \cup {Image(<<112, 112>>, <<112>>, <<1, 57476>>, <<0, 0, 0, 0>>)}
    \* a handler PCB (R set) with a block list of two entries: two words to
    \* block_dest, then one word to block_dest + 4
    \cup {Image(<<112, 112>>, <<112>>, <<1, 57600>>,
                <<0, 0, 0, 2>> \o WordBytes(W(Layout.block_dest))
                    \o <<202, 254, 186, 190>> \o <<222, 173, 190, 239>>
                    \o <<0, 0, 0, 1>> \o WordBytes(W(Layout.block_dest + 4))
                    \o <<18, 52, 86, 120>> \o <<0, 0, 0, 0>>)}
    \* a reset PCB whose PSW has the I-bit, TM and an ISC set, and a reset
    \* vector that points outside the device
    \cup {load(Image(<<112, 112>>, <<112>>, <<1, 57344>>, <<0, 0, 0, 0>>),
               Layout.reset_pcb, WordBytes(<<16, 6830>>)),
          load(Image(<<112, 112>>, <<112>>, <<1, 57344>>, <<0, 0, 0, 0>>),
               128, WordBytes(<<1, 0>>))}
    \cup {Image(p, h, w, b) : p \in {<<112, 112>>, <<132, 64, 77>>, <<1>>},
                              h \in HandlerPrograms,
                              w \in HandlerPsws, b \in BlockLists}

\* The PSWs the host starts a program with.
Psws ==
    {<<0, 46>>,          \* kernel, level 0, ISC 5, TM, ET 2
     <<1, 49411>>,       \* kernel, level 14, R, ET 3
     <<1, 57344>>,       \* kernel, level 15
     <<16, 6400>>,       \* user, level 0, R, Z
     <<0, 129>>}         \* kernel, level 0, I, ET 1

RegFile(psw) ==
    LET L == Layout
    IN  [i \in 0..15 |->
           CASE i = 0 -> W(L.handler_pcb)
             [] i \in 1..8 -> <<4369 * i, 256 * i + 1>>
             [] i = R_FP -> W(L.stack + 32)
             [] i = R_AP -> W(L.stack + 16)
             [] i = R_PSW -> psw
             [] i = R_SP -> W(L.stack + 48)
             [] i = R_PCBP -> W(L.reset_pcb)
             [] i = R_ISP -> W(L.int_stack + 4)
             [] i = R_PC -> W(L.code)]

\* ... and one with the interrupt stack pointer outside the device
RegFiles ==
    {RegFile(w) : w \in Psws}
    \cup {[RegFile(<<0, 46>>) EXCEPT ![R_ISP] = <<1, 0>>]}

\* The machine a call starts from.
Machine ==
    [r |-> r, ir |-> ir, steps |-> steps, error_context |-> error_context,
     mem |-> mem, err |-> "Ok", log |-> <<>>, probe |-> <<>>]

ReturnedVal(m, call, val) ==
    /\ r' = m.r
    /\ ir' = m.ir
    /\ steps' = m.steps
    /\ error_context' = m.error_context
    /\ mem' = m.mem
    /\ ret' = [call |-> call, err |-> m.err, val |-> val]
    /\ pre' = [r |-> r, mem |-> mem]
    /\ log' = m.log
    /\ probe' = m.probe

Returned(m, call) == ReturnedVal(m, call, <<0, 0>>)

Running == ret.err # "Panic"

Init ==
    /\ r = [i \in 0..15 |-> <<0, 0>>]
    /\ ir = Cpu_new_ir
    /\ steps = 0
    /\ error_context = "None"
    /\ mem \in Images
    /\ irq = -1
    /\ ret = [call |-> "new", err |-> "Ok", val |-> <<0, 0>>]
    /\ pre = [r |-> r, mem |-> mem]
    /\ log = <<>>
    /\ probe = <<>>
    /\ hist = <<>>

\* The host assigns the registers before the first call.
HostSetup ==
    /\ ret.call = "new"
    /\ \E rf \in RegFiles : Returned([Machine EXCEPT !.r = rf], "setup")
    /\ UNCHANGED <<irq, hist>>

\* The host resets the CPU before it starts stepping it.
Reset ==
    /\ Running
    /\ steps = 0
    /\ ret.call # "reset"
    /\ Returned(Cpu_reset(Machine), "reset")
    /\ UNCHANGED <<irq, hist>>

StepWithError ==
    /\ Running
    /\ steps < MaxSteps
    /\ \E v \in IrqInputs :
         \E d \in {step_with_error(Machine, v)} :
             /\ d.covered
             /\ Returned(d.m, "step_with_error")
             /\ irq' = v
    /\ UNCHANGED hist

Step ==
    /\ Running
    /\ steps < MaxSteps
    /\ \E v \in IrqInputs :
         \E d \in {step(Machine, v)} :
             /\ d.covered
             /\ Returned(d.m, "step")
             /\ irq' = v
    /\ UNCHANGED hist

Next == HostSetup \/ Reset \/ StepWithError

Spec == Init /\ [][Next]_vars

(***************************************************************************)
(* The same system under a host that drives the CPU with step().           *)
(***************************************************************************)
StepPrograms ==
    {<<112, 112>>,                           \* NOP; NOP
     <<132, 79, 120, 86, 52, 18, 67>>,       \* MOVW &0x12345678,%r3
     <<132, 64, 81>>,                        \* MOVW %r0,(%r1)
     <<48, 172>>,                            \* CALLPS
     <<48, 200>>,                            \* RETPS
     <<160, 64, 112>>,                       \* PUSHW %r0; NOP
     <<132, 64, 225>>,                       \* MOVW %r0,<reserved 0xE1>
     <<1>>,                                  \* not an opcode
     <<47>>,                                 \* WAIT: in the table, no arm
     <<172, 0, 65>>,                         \* DIVW2 &0,%r1
     <<172, 2, 65>>}                         \* DIVW2 &2,%r1

InitStep ==
    /\ Init
    /\ mem \in {Image(p, <<48, 200>>, <<1, 57344>>, <<0, 0, 0, 0>>) : p \in StepPrograms}

NextStep == HostSetup \/ Reset \/ Step

SpecStep == InitStep /\ [][NextStep]_vars

(***************************************************************************)
(* The decoder on its own, as the tests drive it: a byte stream is loaded  *)
(* at BASE, PC is set to BASE, and one decoding call is made.              *)
(***************************************************************************)
BASE == Layout.code

\* What follows the first descriptor byte in a stream.
StreamTails ==
    {<<64, 65, 4, 3, 2, 1>>,        \* %r0, %r1
     <<255, 64, 4, 3, 2, 1>>,       \* &-1, %r0
     <<226, 64, 65, 4, 3, 2>>,      \* {uhalf}%r0, %r1
     <<231, 255, 64, 4, 3, 2>>,     \* {sbyte}&-1, %r0
     <<79, 1, 2, 3, 4, 64>>,        \* &0x04030201, %r0
     <<91, 64, 65, 4, 3, 2>>}       \* <reserved 0x5B>

Streams ==
    {<<132, d>> \o t : d \in 0..255, t \in StreamTails}       \* MOVW <d> ...
    \cup {<<op, 64, 65, 66>> : op \in 0..255}                 \* every first byte
    \cup {<<48, op, 64, 65>> : op \in 0..255}                 \* every second byte
    \cup {<<135, 231, 64, 65>>}                     \* MOVB {sbyte}%r0,%r1

InitDecode ==
    /\ r = [i \in 0..15 |-> IF i = R_PC THEN W(BASE) ELSE <<0, 0>>]
    /\ ir = Cpu_new_ir
    /\ steps = 0
    /\ error_context = "None"
    /\ mem \in {load(<<>>, BASE, st) : st \in Streams}
    /\ irq = -1
    /\ ret = [call |-> "new", err |-> "Ok", val |-> <<0, 0>>]
    /\ pre = [r |-> r, mem |-> mem]
    /\ log = <<>>
    /\ probe = <<>>
    /\ hist = <<>>

\* cpu.decode_descriptor_operand(&mut bus, index, dtype, None, addr, false)
DecodeDescriptorOperand ==
    /\ ret.call = "new"
    /\ \E index \in 0..1, off \in 1..2, dtype \in {"Word", "Byte"} :
         /\ Returned(decode_descriptor_operand(Machine, index, dtype, "Nothing",
                                               BASE + off, FALSE),
                     "decode_descriptor_operand")
         /\ hist' = <<[index |-> index, addr |-> BASE + off, dtype |-> dtype]>>
    /\ UNCHANGED irq

\* cpu.decode_instruction(&mut bus)
DecodeInstruction ==
    /\ ret.call = "new"
    /\ Returned(decode_instruction(Machine), "decode_instruction")
    /\ UNCHANGED <<irq, hist>>

NextDecode == DecodeDescriptorOperand \/ DecodeInstruction

SpecDecode == InitDecode /\ [][NextDecode]_vars

(***************************************************************************)
(* The two stacks on their own.  hist.stack and hist.irq are the values    *)
(* pushed and not yet popped, oldest first; hist.top is what the last pop  *)
(* took off them.  The host pops only what it has pushed.                  *)
(***************************************************************************)
MaxDepth == 2

PushValues == {<<65535, 65534>>, <<4660, 22136>>}

\* where SP and ISP start: the two stacks apart, or SP at the end of the device
StackBases == {<<1536, 1280>>, <<MemSize - 4, 1280>>}

InitStack ==
    /\ \E b \in StackBases :
         r = [i \in 0..15 |-> CASE i = R_SP -> W(b[1]) [] i = R_ISP -> W(b[2])
                                [] OTHER -> <<0, 0>>]
    /\ ir = Cpu_new_ir
    /\ steps = 0
    /\ error_context = "None"
    /\ mem = load(<<>>, 1280, <<222, 173, 190, 239>>)
    /\ irq = -1
    /\ ret = [call |-> "new", err |-> "Ok", val |-> <<0, 0>>]
    /\ pre = [r |-> r, mem |-> mem]
    /\ log = <<>>
    /\ probe = <<>>
    /\ hist = [stack |-> <<>>, irq |-> <<>>, top |-> <<0, 0>>, sp |-> r[R_SP],
               isp |-> r[R_ISP]]

Front(q) == SubSeq(q, 1, Len(q) - 1)

Pushed(m, call, which, val) ==
    /\ Returned(m, call)
    /\ hist' = IF m.err # "Ok" THEN hist
               ELSE IF which = "stack" THEN [hist EXCEPT !.stack = Append(@, val)]
               ELSE [hist EXCEPT !.irq = Append(@, val)]

Popped(p, call, which) ==
    /\ ReturnedVal(p.m, call, p.val)
    /\ hist' = IF p.m.err # "Ok" THEN hist
               ELSE IF which = "stack"
                    THEN [hist EXCEPT !.stack = Front(@), !.top = hist.stack[Len(hist.stack)]]
               ELSE [hist EXCEPT !.irq = Front(@), !.top = hist.irq[Len(hist.irq)]]

StackPush ==
    /\ Len(hist.stack) < MaxDepth
    /\ \E val \in PushValues : Pushed(stack_push(Machine, val), "stack_push", "stack", val)
    /\ UNCHANGED irq

StackPop ==
    /\ Len(hist.stack) > 0
    /\ \E p \in {stack_pop(Machine)} : Popped(p, "stack_pop", "stack")
    /\ UNCHANGED irq

IrqPush ==
    /\ Len(hist.irq) < MaxDepth
    /\ \E val \in PushValues : Pushed(irq_push(Machine, val), "irq_push", "irq", val)
    /\ UNCHANGED irq

IrqPop ==
    /\ Len(hist.irq) > 0
    /\ \E p \in {irq_pop(Machine)} : Popped(p, "irq_pop", "irq")
    /\ UNCHANGED irq

NextStack == StackPush \/ StackPop \/ IrqPush \/ IrqPop

SpecStack == InitStack /\ [][NextStack]_vars

(***************************************************************************)
(* The PSW helpers on their own: a harness calls set_c_flag .. set_n_flag, *)
(* set_isc and set_priv_level on a CPU whose PSW the host has set.  hist   *)
(* is the calls made so far, each with its argument (a flag as 0 or 1).    *)
(***************************************************************************)
MaxCalls == 2

InitPsw ==
    /\ \E w \in {<<0, 0>>, <<65535, 65535>>, <<0, 46>>, <<16, 6400>>, <<43605, 21930>>} :
         r = RegFile(w)
    /\ ir = Cpu_new_ir
    /\ steps = 0
    /\ error_context = "None"
    /\ mem = <<>>
    /\ irq = -1
    /\ ret = [call |-> "new", err |-> "Ok", val |-> <<0, 0>>]
    /\ pre = [r |-> r, mem |-> mem]
    /\ log = <<>>
    /\ probe = <<>>
    /\ hist = <<>>

Called(m, call, arg) ==
    /\ Returned(m, call)
    /\ hist' = Append(hist, [call |-> call, arg |-> arg])
    /\ UNCHANGED irq

SetNzvcFlag ==
    /\ Len(hist) < MaxCalls
    /\ \E b \in 0..1 :
         \/ Called(set_c_flag(Machine, b = 1), "set_c_flag", b)
         \/ Called(set_v_flag(Machine, b = 1), "set_v_flag", b)
         \/ Called(set_z_flag(Machine, b = 1), "set_z_flag", b)
         \/ Called(set_n_flag(Machine, b = 1), "set_n_flag", b)

SetIsc ==
    /\ Len(hist) < MaxCalls
    /\ \E v \in {0, 5, 15, 16, 21} : Called(set_isc(Machine, v), "set_isc", v)

SetPrivLevel ==
    Len(hist) < MaxCalls
    /\ \E level \in 0..3 : Called(set_priv_level(Machine, level), "set_priv_level", level)

NextPsw == SetNzvcFlag \/ SetIsc \/ SetPrivLevel

SpecPsw == InitPsw /\ [][NextPsw]_vars

(***************************************************************************)
(* Procedure frames: programs of CALL, RET, SAVE and RESTORE stepped with  *)
(* no interrupt pending, the host free to assign r0..r8 between steps.     *)
(* hist holds, for every call made, the instruction it left in ir (name,   *)
(* length, register of its first operand), its outcome, and the registers  *)
(* and memory it started from.                                             *)
(***************************************************************************)
MaxFrameCalls == 3

InitFrame ==
    /\ \E w \in {<<1, 57344>>, <<16, 6400>>} : r = RegFile(w)
    /\ ir = Cpu_new_ir
    /\ steps = 0
    /\ error_context = "None"
    /\ \E p \in
           {<<44, 127, 32, 6, 0, 0, 127, 16, 7, 0, 0,  0, 0, 0, 0, 0,  8>>,
                                                    \* CALL $0x620,$0x710; 0x710: RET
            <<44, 80, 127, 16, 7, 0, 0,  0, 0, 0, 0, 0, 0, 0, 0, 0,  8>>,
                                                    \* CALL (%r0),$0x710; 0x710: RET
            <<44, 127, 32, 6, 0, 0, 127, 16, 7, 0, 0,  0, 0, 0, 0, 0,  112, 8>>,
                                                    \* CALL $0x620,$0x710; 0x710: NOP; RET
            <<8>>,                                  \* RET
            <<16, 64, 24, 64>>,                     \* SAVE %r0; RESTORE %r0
            <<16, 67, 24, 67>>,                     \* SAVE %r3; RESTORE %r3
            <<16, 72, 24, 72>>,                     \* SAVE %r8; RESTORE %r8
            <<16, 67, 132, 79, 120, 86, 52, 18, 68, 24, 67>>,
                                                    \* SAVE %r3; MOVW &0x12345678,%r4; RESTORE %r3
            <<16, 67, 24, 70>>} :                   \* SAVE %r3; RESTORE %r6
         mem = load(<<>>, Layout.code, p)
    /\ irq = -1
    /\ ret = [call |-> "setup", err |-> "Ok", val |-> <<0, 0>>]
    /\ pre = [r |-> r, mem |-> mem]
    /\ log = <<>>
    /\ probe = <<>>
    /\ hist = <<>>

StepFrame ==
    /\ Running
    /\ Len(hist) < MaxFrameCalls
    /\ \E d \in {step_with_error(Machine, -1)} :
         /\ d.covered
         /\ Returned(d.m, "step_with_error")
         /\ hist' = Append(hist, [name |-> d.m.ir.name, err |-> d.m.err,
                                  bytes |-> d.m.ir.bytes,
                                  reg |-> d.m.ir.operands[0].register,
                                  r |-> r, mem |-> mem])
    /\ UNCHANGED irq

\* The host assigns one of r0..r8 (Cpu.r is pub).
HostAssign ==
    /\ Running
    /\ Len(hist) < MaxFrameCalls
    /\ \E i \in 0..8 :
         /\ Returned([Machine EXCEPT !.r[i] = <<57005, 48879>>], "assign")
         /\ hist' = Append(hist, [name |-> "assign", err |-> "Ok", bytes |-> 0, reg |-> i,
                                  r |-> r, mem |-> mem])
    /\ UNCHANGED irq

NextFrame == StepFrame \/ HostAssign

SpecFrame == InitFrame /\ [][NextFrame]_vars

(***************************************************************************)
(* Transfers of control: every branch, subroutine call and return under    *)
(* every value of the N, Z, V and C flags, stepped with no interrupt       *)
(* pending.  The program is at Layout.code; 16 bytes after it and 16 bytes *)
(* before it there is an RSB; the word below SP and the word at 0x6e0 hold *)
(* the address of the first RSB.  hist is the one of StepFrame.            *)
(***************************************************************************)
InitBranch ==
    /\ \E f \in 0..15 : r = RegFile(<<4 * f + 1, 57344>>)
    /\ ir = Cpu_new_ir
    /\ steps = 0
    /\ error_context = "None"
    /\ \E p \in
           {<<op, 16>> : op \in {67 + 4 * k : k \in 0..15} \ {115}}        \* B<cc>B .+16
           \cup {<<op, 240>> : op \in {67 + 4 * k : k \in 0..15} \ {115}} \* B<cc>B .-16
           \cup {<<op, 16, 0>> : op \in {66 + 4 * k : k \in 0..15} \ {114}}    \* B<cc>H .+16
           \cup {<<op, 240, 255>> : op \in {66 + 4 * k : k \in 0..15} \ {114}} \* B<cc>H .-16
           \cup {<<op>> : op \in {64 + 4 * k : k \in 0..15} \ {112}}      \* R<cc>, RSB
           \cup {<<55, 16>>, <<55, 240>>,                \* BSBB .+16; BSBB .-16
                 <<54, 16, 0>>, <<54, 240, 255>>,        \* BSBH .+16; BSBH .-16
                 <<52, 127, 16, 7, 0, 0>>,               \* JSB $0x710
                 <<52, 239, 224, 6, 0, 0>>,              \* JSB *$0x6e0
                 <<52, 220, 252>>} :                     \* JSB *-4(%sp)
         mem = load(load(load(load(load(<<>>, Layout.code, p),
                                   Layout.code + 16, <<120>>),
                              Layout.code - 16, <<120>>),
                         1760, WordBytes(W(Layout.code + 16))),
                    Layout.stack + 44, WordBytes(W(Layout.code + 16)))
    /\ irq = -1
    /\ ret = [call |-> "setup", err |-> "Ok", val |-> <<0, 0>>]
    /\ pre = [r |-> r, mem |-> mem]
    /\ log = <<>>
    /\ probe = <<>>
    /\ hist = <<>>

NextBranch == StepFrame

SpecBranch == InitBranch /\ [][NextBranch]_vars

(***************************************************************************)
(* Data instructions: straight-line programs at Layout.code, stepped with  *)
(* no interrupt pending from registers r1 and r2 the host has set.  A case *)
(* is <<program, r1, r2>>.  hist is the one of StepFrame.                  *)
(***************************************************************************)
InitData ==
    /\ \E c \in
           {<<<<112, 115, 0, 114, 0, 0, 112>>, <<0, 0>>, <<0, 0>>>>,
                                                    \* NOP; NOP2; NOP3; NOP
            <<<<132, 79, 120, 86, 52, 18, 67, 112>>, <<0, 0>>, <<0, 0>>>>,
                                                    \* MOVW &0x12345678,%r3; NOP
            <<<<160, 65, 144, 65, 112>>, <<0, 7>>, <<0, 0>>>>,
                                                    \* PUSHW %r1; INCW %r1; NOP
            <<<<132, 193, 4, 66, 112>>, W(Layout.stack), <<0, 0>>>>,
                                                    \* MOVW 4(%r1),%r2; NOP
            <<<<160, 231, 255, 112>>, <<0, 0>>, <<0, 0>>>>,
                                                    \* PUSHW {sbyte}&-1; NOP
            <<<<132, 224, 226, 65, 66, 112>>, <<0, 7>>, <<0, 0>>>>}
                                                    \* MOVW {uword}{uhalf}%r1,%r2; NOP
           \cup {<<<<op, 66, 65>>, a, b>> :         \* SUBx2 %r2,%r1
                    op \in {188, 190, 191},
                    a \in {<<32768, 0>>, <<0, 32768>>, <<0, 128>>, <<0, 5>>, <<65535, 65535>>},
                    b \in {<<0, 1>>, <<0, 5>>, <<0, 255>>, <<65535, 65535>>}}
           \cup {<<<<op, 66, 65, 67>>, a, <<0, 1>>>> :    \* SUBx3 %r2,%r1,%r3
                    op \in {252, 254, 255},
                    a \in {<<32768, 0>>, <<0, 32768>>, <<0, 128>>, <<0, 0>>}}
           \cup {<<<<op, 65>>, a, <<0, 0>>>> :      \* DECx %r1
                    op \in {148, 150, 151},
                    a \in {<<32768, 0>>, <<0, 32768>>, <<0, 128>>, <<0, 0>>, <<0, 1>>}}
           \cup {<<<<op, 66, 65>>, b, a>> :         \* DIVx2 %r2,%r1
                    op \in {172, 174, 175},
                    b \in {<<32768, 0>>, <<0, 32768>>, <<0, 128>>, <<0, 100>>},
                    a \in {<<65535, 65535>>, <<0, 65535>>, <<0, 255>>, <<0, 7>>}}
           \cup {<<<<op, 255, 65>>, b, <<0, 0>>>> : \* DIVx2 &-1,%r1
                    op \in {172, 174, 175},
                    b \in {<<32768, 0>>, <<0, 32768>>, <<0, 128>>, <<0, 100>>}}
           \cup {<<<<op, 66, 65, 67>>, b, a>> :     \* DIVx3 %r2,%r1,%r3
                    op \in {236, 238, 239},
                    b \in {<<32768, 0>>, <<0, 32768>>, <<0, 128>>},
                    a \in {<<65535, 65535>>, <<0, 65535>>, <<0, 255>>}}
           \cup {<<<<op>> \o src \o <<65>>, <<0, 0>>, a>> :     \* MOVx <src>,%r1
                    op \in {132, 134, 135},
                    src \in {<<66>>, <<231, 66>>, <<255>>, <<5>>,
                                \* %r2; {sbyte}%r2; &-1; &5
                             <<79, 52, 18, 0, 0>>, <<79, 120, 86, 52, 18>>,
                                \* &0x1234; &0x12345678
                             <<95, 0, 128>>, <<111, 128>>},
                                \* &0x8000 (halfword); &0x80 (byte)
                    a \in {<<0, 128>>, <<1, 32768>>, <<0, 4660>>}}
           \cup {<<<<200, w, o, 65, 66, 204, w, o, 66, 67>>, a, b>> :
                    \* INSFW &w,&o,%r1,%r2; EXTFW &w,&o,%r2,%r3
                    w \in 0..31, o \in 0..31,
                    a \in {<<65535, 65535>>, <<42405, 7815>>},
                    b \in {<<0, 0>>, <<23130, 50115>>}} :
         /\ r = [RegFile(<<1, 57344>>) EXCEPT ![1] = c[2], ![2] = c[3]]
         /\ mem = load(<<>>, Layout.code, c[1])
    /\ ir = Cpu_new_ir
    /\ steps = 0
    /\ error_context = "None"
    /\ irq = -1
    /\ ret = [call |-> "setup", err |-> "Ok", val |-> <<0, 0>>]
    /\ pre = [r |-> r, mem |-> mem]
    /\ log = <<>>
    /\ probe = <<>>
    /\ hist = <<>>

NextData == StepFrame

SpecData == InitData /\ [][NextData]_vars

(***************************************************************************)
(* Operand reads and writes on their own, as the tests drive them: an      *)
(* operand is at BASE + 1, one decode_descriptor_operand call decodes it   *)
(* (or what starts one byte into it), then read_op or write_op is called   *)
(* on the operand decoded.  r1 points into a block of nonzero bytes at     *)
(* 0x638..0x64f, r2 outside the device; the word at 0x6e0 is 0x644.  After *)
(* a write hist[2] is the value written.                                   *)
(***************************************************************************)
InitOperand ==
    /\ r = [RegFile(<<1, 57344>>) EXCEPT ![1] = W(1600), ![R_FP] = W(1596)]
    /\ ir = Cpu_new_ir
    /\ steps = 0
    /\ error_context = "None"
    /\ \E st \in
           {<<65>>, <<75>>, <<79, 1, 2, 3, 4>>, <<81>>, <<82>>, <<5>>, <<255>>,
               \* %r1; %psw; &0x04030201; (%r1); (%r2); &5; &-1
            <<95, 1, 2>>, <<111, 200>>, <<100>>, <<116>>, <<127, 64, 6, 0, 0>>,
               \* &0x0201; &0xc8; 4(%fp); 4(%ap); $0x640
            <<129, 2, 0, 0, 0>>, <<145, 160, 0, 0, 0>>, <<161, 254, 255>>,
               \* 2(%r1); *0xa0(%r1); -2(%r1)
            <<177, 160, 0>>, <<193, 4>>, <<209, 160>>, <<239, 224, 6, 0, 0>>,
               \* *0xa0(%r1); 4(%r1); *-0x60(%r1); *$0x6e0
            <<231, 65>>, <<226, 81>>, <<230, 193, 3>>, <<231, 127, 65, 6, 0, 0>>,
               \* {sbyte}%r1; {uhalf}(%r1); {half}3(%r1); {sbyte}$0x641
            <<224, 193, 255>>, <<227, 66>>, <<231, 255>>} :
               \* {uword}-1(%r1); {byte}%r2; {sbyte}&-1
         mem = load(load(load(load(<<>>, BASE, <<132>> \o st),
                              1592, <<129, 130, 131, 132, 133, 134, 135, 136,
                                      137, 138, 139, 140, 141, 142, 143, 144,
                                      145, 146, 147, 148, 149, 150, 151, 152>>),
                         1760, WordBytes(W(1604))),
                    1504, WordBytes(W(1608)))
    /\ irq = -1
    /\ ret = [call |-> "new", err |-> "Ok", val |-> <<0, 0>>]
    /\ pre = [r |-> r, mem |-> mem]
    /\ log = <<>>
    /\ probe = <<>>
    /\ hist = <<>>

\* cpu.read_op(bus, index) on the operand just decoded
ReadOp ==
    /\ ret.call = "decode_descriptor_operand"
    /\ ret.err = "Ok"
    /\ \E rd \in {read_op(Machine, hist[1].index)} :
         ReturnedVal(rd.m, "read_op", rd.val)
    /\ UNCHANGED <<irq, hist>>

\* cpu.write_op(bus, index, val) on the operand just decoded
WriteOp ==
    /\ ret.call = "decode_descriptor_operand"
    /\ ret.err = "Ok"
    /\ \E val \in {<<4660, 22136>>, <<65535, 65408>>, <<0, 90>>} :
         /\ Returned(write_op(Machine, hist[1].index, val), "write_op")
         /\ hist' = <<hist[1], val>>
    /\ UNCHANGED irq

NextOperand == DecodeDescriptorOperand \/ ReadOp \/ WriteOp

SpecOperand == InitOperand /\ [][NextOperand]_vars

(***************************************************************************)
(* What the properties below read off a state.                             *)
(***************************************************************************)
Stepped == ret.call = "step_with_error"

\* positions in the last call's log of the entries of one kind
At(op) == {i \in 1..Len(log) : log[i][1] = op}

\* the probe the last step's decode left, and those of its context switches
DecodeProbes == {k \in 1..Len(probe) : probe[k].phase = "decode"}
InterruptTaken == At("on_interrupt") # {}

\* bits 13..16 of a PSW
IplOf(psw) == 8 * (psw[1] % 2) + psw[2] \div 8192

\* bit 8 (R) and bit 7 (I) of a PSW
RBit(psw) == (psw[2] \div 256) % 2
IBit(psw) == (psw[2] \div 128) % 2

(***************************************************************************)
(* C1.  Interrupt entry followed at once by RETPS.                         *)
(***************************************************************************)
Apart(a, la, b, lb) == a + la <= b \/ b + lb <= a

\* The interrupted process's PCB, the handler's PCB and the slot of the
\* interrupt stack the entry pushes to are three separate pieces of memory.
C1_SeparateAreas ==
    \A i \in At("on_interrupt") :
        LET old == usize(pre.r[R_PCBP])
            new == usize(read_word(pre.mem, 140 + 4 * log[i][2]))
            slot == usize(pre.r[R_ISP])
        IN  Apart(old, 64, new, 64) /\ Apart(slot, 4, old, 64) /\ Apart(slot, 4, new, 64)

C1_RoundTrip ==
    Stepped /\ ret.err = "Ok" /\ InterruptTaken /\ ir.name = "RETPS" /\ C1_SeparateAreas

\* C1 (as stated): after on_interrupt(v) followed directly by RETPS all
\* sixteen registers, the PSW included, hold their pre-interrupt values, the
\* R-bit of the PSW apart.
C1_RoundTripRestoresAll ==
    C1_RoundTrip =>
        \A i \in 0..15 :
            IF i = R_PSW
            THEN AndW(r[i], NotW(F_R)) = AndW(pre.r[i], NotW(F_R))
            ELSE r[i] = pre.r[i]

\* C1 (amended): after on_interrupt(v) followed directly by RETPS, registers
\* 0..10, SP, ISP and PC hold their pre-interrupt values; the PSW holds its
\* pre-interrupt value with ISC = 0, TM = 0, ET = 1 and the I-bit clear (its
\* R-bit is the one copied in); PCBP holds its pre-interrupt value, plus 12
\* when the pre-interrupt PSW had the I-bit set.
C1_RoundTripRestoresAllButPswFields ==
    C1_RoundTrip =>
        /\ \A i \in (0..15) \ {R_PSW, R_PCBP} : r[i] = pre.r[i]
        /\ (r[R_PSW][2] \div 8) % 16 = 0
        /\ (r[R_PSW][2] \div 4) % 2 = 0
        /\ r[R_PSW][2] % 4 = 1
        /\ IBit(r[R_PSW]) = 0
        /\ r[R_PSW][1] = pre.r[R_PSW][1]
        /\ r[R_PSW][2] \div 512 = pre.r[R_PSW][2] \div 512
        /\ r[R_PCBP] = IF IBit(pre.r[R_PSW]) = 1 THEN AddW(pre.r[R_PCBP], <<0, 12>>)
                       ELSE pre.r[R_PCBP]

\* An interrupt was taken with the handler's PCB asking for the registers to be
\* saved, the handler returned with RETPS, and the registers were non-zero.
C1_Witness ==
    /\ C1_RoundTrip
    /\ RBit(r[R_PSW]) = 1
    /\ r[3] # <<0, 0>>
    /\ pre.r[R_PSW][2] % 256 # r[R_PSW][2] % 256

(***************************************************************************)
(* C2.  Operand writes to the PSW, PCBP and ISP.                           *)
(***************************************************************************)
\* what the last step's decode started from: the state before its instruction
Executed == Stepped /\ ret.err = "Ok" /\ DecodeProbes # {}
Decoded == probe[CHOOSE k \in DecodeProbes : TRUE]

SamePswButFlags(a, b) ==
    a[2] = b[2] /\ a[1] \div 64 = b[1] \div 64 /\ a[1] % 4 = b[1] % 4

\* the operand the executed instruction stores its result through, if any
HasDest == ir.name \in {"MOVW", "MOVH", "MOVB", "POPW", "CLRW", "CLRH", "CLRB"}
Dest == ir.operands[IF ir.name \in {"MOVW", "MOVH", "MOVB"} THEN 1 ELSE 0]
WritesRegister(n) == HasDest /\ Dest.mode = "Register" /\ Dest.register = n

\* the word a MOVW from a register, or a POPW, hands to write_op
WordWritten ==
    IF ir.name = "POPW" THEN read_word(Decoded.mem0, usize(Decoded.r0[R_SP]) - 4)
    ELSE Decoded.r0[ir.operands[0].register]

C2_WordToRegister(n) ==
    /\ Executed
    /\ WritesRegister(n)
    /\ \/ ir.name = "POPW"
       \/ ir.name = "MOVW" /\ ir.operands[0].mode = "Register"

\* C2 (as stated): registers 11 (PSW), 13 (PCBP) and 14 (ISP) are changed
\* only by reset, interrupt entry, CALLPS, RETPS and the flag helpers: an
\* executed instruction other than CALLPS and RETPS leaves PCBP and ISP as
\* they were and changes the PSW in its flag bits only.
C2_OperandWritesSparePswPcbpIsp ==
    (Executed /\ ir.name \notin {"CALLPS", "RETPS"}) =>
        /\ r[R_PCBP] = Decoded.r0[R_PCBP]
        /\ r[R_ISP] = Decoded.r0[R_ISP]
        /\ SamePswButFlags(r[R_PSW], Decoded.r0[R_PSW])

\* C2 (amended): an operand write to a Register-mode destination stores into
\* whichever register the descriptor names, 11, 13 and 14 included: after a
\* MOVW from a register or a POPW to one of them it holds the word written
\* (the PSW apart from the flag bits the instruction sets afterwards).  An
\* executed instruction other than CALLPS and RETPS whose destination does
\* not name them leaves PCBP and ISP as they were and changes the PSW in its
\* flag bits only.
C2_OperandWritesReachPswPcbpIsp ==
    /\ \A n \in {R_PCBP, R_ISP} :
          /\ C2_WordToRegister(n) => r[n] = WordWritten
          /\ (Executed /\ ir.name \notin {"CALLPS", "RETPS"} /\ ~WritesRegister(n))
                => r[n] = Decoded.r0[n]
    /\ C2_WordToRegister(R_PSW) => SamePswButFlags(r[R_PSW], WordWritten)
    /\ (Executed /\ ir.name \notin {"CALLPS", "RETPS"} /\ ~WritesRegister(R_PSW))
          => SamePswButFlags(r[R_PSW], Decoded.r0[R_PSW])

\* MOVW %r0,%isp was executed and the ISP is no longer what it was.
C2_Witness ==
    /\ C2_WordToRegister(R_ISP)
    /\ ir.name = "MOVW"
    /\ r[R_ISP] # Decoded.r0[R_ISP]

(***************************************************************************)
(* C3.  Which pending vectors are taken.                                   *)
(***************************************************************************)
\* the level the claim gives a pending vector val
LevelOf(val) == IF val % 64 = 0 THEN 0 ELSE IF val % 64 < 8 THEN 14 ELSE 15

\* the bus reported a vector at the top of the last step, and the IPL of the
\* PSW the step started with is strictly below the vector's level
Admitted == irq >= 0 /\ IplOf(pre.r[R_PSW]) < LevelOf(irq)

\* C3: at the top of every step, interrupt entry is performed if and only if
\* a vector val is pending and the IPL (PSW bits 13-16) is strictly less than
\* IPL_TABLE[val & 0x3F]; the vector handed to on_interrupt is (~val) & 0x3F;
\* otherwise nothing precedes the decoding of the step's instruction: no
\* interrupt entry and no context switch phase.
C3_EntryIffIplBelowLevel ==
    Stepped =>
        IF Admitted
        THEN /\ Cardinality(At("on_interrupt")) = 1
             /\ \A i \in At("on_interrupt") : log[i][2] = (255 - irq) % 64
        ELSE /\ At("on_interrupt") = {}
             /\ probe # <<>>
             /\ probe[1].phase = "decode"

\* Vector 5 (level 14) was pending with the IPL below 14, and the entry and
\* the handler's first instruction went through.
C3_Witness ==
    /\ Stepped
    /\ irq = 5
    /\ Admitted
    /\ InterruptTaken
    /\ ret.err = "Ok"

(***************************************************************************)
(* C4.  Interrupts are looked at between instructions only.                *)
(***************************************************************************)
\* C4: in every step the bus is asked for a pending interrupt exactly once,
\* right after service() and before the instruction is decoded; at most one
\* interrupt entry happens and it precedes the decoding; nothing after the
\* decoding has begun asks the bus again or enters an interrupt.
C4_PolledOnceBeforeDecode ==
    Stepped =>
        /\ Len(log) >= 2
        /\ log[1][1] = "service"
        /\ log[2][1] = "get_interrupts"
        /\ At("get_interrupts") = {2}
        /\ Cardinality(At("on_interrupt")) <= 1
        /\ Cardinality(At("decode")) <= 1
        /\ \A d \in At("decode") :
              \A i \in At("get_interrupts") \cup At("on_interrupt") : i < d

\* An interrupt was entered and the handler's NOP was then decoded and run.
C4_Witness ==
    /\ Stepped
    /\ ret.err = "Ok"
    /\ InterruptTaken
    /\ ir.name = "NOP"
    /\ At("decode") # {}

(***************************************************************************)
(* C5.  Phase 1 of a context switch.                                       *)
(***************************************************************************)
\* the phase 1 runs of the last call that went through
Cs1Probes == {k \in 1..Len(probe) : probe[k].phase = "cs1" /\ probe[k].err = "Ok"}

\* the R-bit of the PSW stored at the new PCBP when phase 1 began
IncomingR(p) == RBit(read_word(p.mem0, usize(p.arg)))

\* C5: in phase 1 of every context switch the R-bit of the PSW stored at
\* new_PCBP replaces the R-bit of the current PSW before that PSW is saved:
\* the word at [old_PCBP] is the old PSW with the incoming R-bit, and so is
\* the PSW register.  If that bit is set, FP, R0..R8 and AP are stored at
\* old_PCBP+24, +28..+60 and +20; if it is clear the bytes at
\* old_PCBP+20..+63 and the FP register are as they were.
C5_Phase1CopiesRThenSaves ==
    \A k \in Cs1Probes :
        LET p == probe[k]
            old == usize(p.r0[R_PCBP])
            saved == read_word(p.mem1, old)
        IN  /\ RBit(saved) = IncomingR(p)
            /\ saved[1] = p.r0[R_PSW][1]
            /\ saved[2] - 256 * RBit(saved) = p.r0[R_PSW][2] - 256 * RBit(p.r0[R_PSW])
            /\ p.r1[R_PSW] = saved
            /\ IF IncomingR(p) = 1
               THEN /\ read_word(p.mem1, old + 24) = p.r0[R_FP]
                    /\ \A i \in 0..8 : read_word(p.mem1, old + 28 + 4 * i) = p.r0[i]
                    /\ read_word(p.mem1, old + 20) = p.r0[R_AP]
               ELSE /\ \A a \in (old + 20)..(old + 63) :
                          read_byte(p.mem1, a) = read_byte(p.mem0, a)
                    /\ p.r1[R_FP] = p.r0[R_FP]

\* An interrupt was entered from a PSW with R clear into a PCB whose PSW has
\* R set, and phase 1 stored non-zero registers over a different PCB content.
C5_Witness ==
    /\ Stepped
    /\ InterruptTaken
    /\ \E k \in Cs1Probes :
          /\ IncomingR(probe[k]) = 1
          /\ RBit(probe[k].r0[R_PSW]) = 0
          /\ probe[k].r0[3] # <<0, 0>>
          /\ read_word(probe[k].mem0, usize(probe[k].r0[R_PCBP]) + 40) # probe[k].r0[3]

(***************************************************************************)
(* C6.  The two stacks are last-in first-out.                              *)
(***************************************************************************)
Last(q) == q[Len(q)]

\* C6: a successful stack_push(v) leaves v at the old SP and SP four higher;
\* a successful stack_pop returns the word at the old SP - 4 and leaves SP
\* four lower.  So a pop returns the latest value pushed and not yet popped,
\* SP is always its initial value plus four for each such value, and it is
\* back at the initial value when all are popped.  irq_push and irq_pop do
\* the same with ISP.
C6_StacksAreLifo ==
    /\ (ret.call = "stack_push" /\ ret.err = "Ok") =>
          /\ read_word(mem, usize(pre.r[R_SP])) = Last(hist.stack)
          /\ r[R_SP] = AddW(pre.r[R_SP], W(4))
    /\ (ret.call = "stack_pop" /\ ret.err = "Ok") =>
          /\ ret.val = read_word(pre.mem, usize(pre.r[R_SP]) - 4)
          /\ ret.val = hist.top
          /\ r[R_SP] = SubW(pre.r[R_SP], W(4))
    /\ (ret.call = "irq_push" /\ ret.err = "Ok") =>
          /\ read_word(mem, usize(pre.r[R_ISP])) = Last(hist.irq)
          /\ r[R_ISP] = AddW(pre.r[R_ISP], W(4))
    /\ (ret.call = "irq_pop" /\ ret.err = "Ok") =>
          /\ ret.val = read_word(pre.mem, usize(pre.r[R_ISP]) - 4)
          /\ ret.val = hist.top
          /\ r[R_ISP] = SubW(pre.r[R_ISP], W(4))
    /\ ret.call \in {"stack_push", "stack_pop", "irq_push", "irq_pop"} =>
          /\ r[R_SP] = AddW(hist.sp, W(4 * Len(hist.stack)))
          /\ r[R_ISP] = AddW(hist.isp, W(4 * Len(hist.irq)))

\* 0x12345678 then 0xFFFFFFFE were pushed, and the second pop has just
\* returned 0x12345678: SP is back where it began, the other value above it.
C6_Witness ==
    /\ ret.call = "stack_pop"
    /\ ret.err = "Ok"
    /\ hist.stack = <<>>
    /\ r[R_SP] = hist.sp
    /\ ret.val = <<4660, 22136>>
    /\ read_word(mem, usize(r[R_SP]) + 4) = <<65535, 65534>>

(***************************************************************************)
(* C7.  What an operand's size and the instruction's length count.         *)
(***************************************************************************)
\* the bytes of the instruction stream the last call fetched
RECURSIVE BytesReadUpTo(_)
BytesReadUpTo(i) ==
    IF i = 0 THEN 0
    ELSE BytesReadUpTo(i - 1) + (IF log[i][1] = "read" THEN log[i][3] ELSE 0)

BytesRead == BytesReadUpTo(Len(log))

DecodedOperand == ret.call = "decode_descriptor_operand" /\ ret.err = "Ok"
DecodedInstruction == ret.call = "decode_instruction" /\ ret.err = "Ok"

\* C7: for every descriptor that decodes successfully, with or without an
\* expanded-type prefix byte, the operand's size is the number of bytes of the
\* instruction stream it occupies (prefix, descriptor, embedded bytes); and
\* after decode_instruction the instruction register's length is the opcode's
\* length plus those of its operands: the bytes of the stream it consumed.
C7_SizeIsBytesConsumed ==
    /\ DecodedOperand => ir.operands[hist[1].index].size = BytesRead
    /\ DecodedInstruction => ir.bytes = BytesRead

(***************************************************************************)
(* C8.  An expanded-type prefix in front of a descriptor.                  *)
(***************************************************************************)
IsPrefix(b) == b \in {224, 226, 227, 228, 230, 231}

\* the width the claim gives the prefix 0xE<n>
PrefixWidth(b) ==
    CASE b = 224 -> "UWord" [] b = 226 -> "UHalf" [] b = 227 -> "Byte"
      [] b = 228 -> "Word"  [] b = 230 -> "Half"  [] b = 231 -> "SByte"
      [] OTHER -> "Nothing"

\* the operand the descriptor behind the prefix decodes to on its own
InnerAlone ==
    decode_descriptor_operand(
        [Machine EXCEPT !.r = pre.r, !.ir = Cpu_new_ir, !.mem = pre.mem],
        hist[1].index, hist[1].dtype, "Nothing", hist[1].addr + 1,
        FALSE).ir.operands[hist[1].index]

\* C8: when one of the bytes 0xE0, 0xE2, 0xE3, 0xE4, 0xE6, 0xE7 precedes a
\* descriptor, the decoded operand has the mode, register and embedded value
\* of that descriptor, the expanded type the prefix's low nibble selects, the
\* opcode's data type, and the descriptor's size plus one.
C8_PrefixedOperandIsInnerPlusOne ==
    (DecodedOperand /\ IsPrefix(read_byte(pre.mem, hist[1].addr))) =>
        LET op == ir.operands[hist[1].index]
        IN  /\ op.mode = InnerAlone.mode
            /\ op.register = InnerAlone.register
            /\ op.embedded = InnerAlone.embedded
            /\ op.expanded_type = PrefixWidth(read_byte(pre.mem, hist[1].addr))
            /\ op.data_type = hist[1].dtype
            /\ op.size = InnerAlone.size + 1

(***************************************************************************)
(* C9.  One expansion per operand.                                         *)
(***************************************************************************)
\* C9: the descriptor parsed after an expanded-type prefix byte is never
\* itself an expanded-type prefix, so no operand that starts with two prefix
\* bytes decodes, and no operand takes more than the six bytes of a prefix, a
\* descriptor and a word.
C9_ExpandedAtMostOnce ==
    DecodedOperand =>
        /\ ~(/\ IsPrefix(read_byte(pre.mem, hist[1].addr))
             /\ IsPrefix(read_byte(pre.mem, hist[1].addr + 1)))
        /\ BytesRead <= 6

(***************************************************************************)
(* C10.  Reserved descriptors and unknown opcodes.                         *)
(***************************************************************************)
\* a descriptor byte the claim calls reserved
Reserved(d) ==
    \/ d \div 16 \in {5, 8, 9, 10, 11, 12, 13} /\ d % 16 = 11
    \/ d \div 16 = 14 /\ d % 16 \notin {0, 2, 3, 4, 6, 7, 15}

\* the instruction stream at the PC the last step decoded from
StreamAt(i) == read_byte(Decoded.mem0, usize(Decoded.r0[R_PC]) + i)

\* its first byte, or its 0x30xx pair, is not in the opcode table
UnknownOpcode ==
    IF StreamAt(0) = 48 THEN ~HasMnemonic(12288 + StreamAt(1))
    ELSE ~HasMnemonic(StreamAt(0))

\* a MOVW whose first descriptor is reserved, bare or behind a prefix byte,
\* or whose second descriptor, after a register descriptor, is reserved
ReservedOperand ==
    /\ StreamAt(0) = 132
    /\ \/ Reserved(StreamAt(1))
       \/ IsPrefix(StreamAt(1)) /\ Reserved(StreamAt(2))
       \/ StreamAt(1) \div 16 = 4 /\ StreamAt(1) % 16 # 15 /\ Reserved(StreamAt(2))

\* C10: decoding a reserved descriptor fails with IllegalOpcode, and so does
\* an instruction whose first byte (or 0x30xx pair) is not in the opcode
\* table; step_with_error returns that error with PC, every other register
\* and memory as they were when decoding began, which, when no interrupt was
\* entered first, is as they were before the step.
C10_IllegalOpcodeChangesNothing ==
    (Stepped /\ DecodeProbes # {} /\ (UnknownOpcode \/ ReservedOperand)) =>
        /\ ret.err = "IllegalOpcode"
        /\ r = Decoded.r0
        /\ mem = Decoded.mem0
        /\ ~InterruptTaken => (r = pre.r /\ mem = pre.mem)

\* The host set the registers up and the step met MOVW with a reserved
\* descriptor at the PC: the error came back and the PC is where it was.
C10_Witness ==
    /\ Stepped
    /\ DecodeProbes # {}
    /\ ReservedOperand
    /\ ~InterruptTaken
    /\ ret.err = "IllegalOpcode"
    /\ r[R_PC] = W(Layout.code)
    /\ r[1] # <<0, 0>>
    /\ r = pre.r
(***************************************************************************)
(* C11.  Division and remainder by zero.                                   *)
(***************************************************************************)
DivMod ==
    {"DIVW2", "DIVH2", "DIVB2", "DIVW3", "DIVH3", "DIVB3",
     "MODW2", "MODH2", "MODB2", "MODW3", "MODH3", "MODB3"}

\* the machine the last step's instruction was executed on
MachineDecoded ==
    [r |-> Decoded.r0, ir |-> ir, steps |-> steps, error_context |-> error_context,
     mem |-> Decoded.mem0, err |-> "Ok", log |-> <<>>, probe |-> <<>>]

\* the last step decoded a DIV or a MOD whose first source operand reads as 0
ZeroDivisor ==
    /\ Stepped
    /\ DecodeProbes # {}
    /\ Decoded.err = "Ok"
    /\ ir.name \in DivMod
    /\ read_op(MachineDecoded, 0).m.err = "Ok"
    /\ read_op(MachineDecoded, 0).val = <<0, 0>>

\* its second source operand can be read
DividendRead == read_op(MachineDecoded, 1).m.err = "Ok"

\* C11 (as stated): every DIV and MOD instruction whose first source operand
\* reads as zero makes step_with_error return IntegerZeroDivide, with PC,
\* every other register, the flags included, and memory as they were.
C11_ZeroDivisorFails ==
    ZeroDivisor =>
        /\ ret.err = "IntegerZeroDivide"
        /\ r = Decoded.r0
        /\ mem = Decoded.mem0
        /\ ~InterruptTaken => (r = pre.r /\ mem = pre.mem)

\* C11 (amended): both source operands are read before the divisor is
\* looked at.  When the second one is read without an error, a divisor that
\* reads as zero makes step_with_error return IntegerZeroDivide; when it is
\* not, the step returns the error of that read.  Either way PC, every other
\* register, the flags included, and memory are as they were when the
\* instruction was decoded, which, when no interrupt was entered first, is
\* as they were before the step.
C11_ZeroDivisorFailsOnceOperandsRead ==
    ZeroDivisor =>
        /\ ret.err = IF DividendRead THEN "IntegerZeroDivide"
                     ELSE read_op(MachineDecoded, 1).m.err
        /\ r = Decoded.r0
        /\ mem = Decoded.mem0
        /\ ~InterruptTaken => (r = pre.r /\ mem = pre.mem)

\* MODH3 with a zero divisor and a readable dividend came back with the
\* error, the registers set up by the host untouched.
C11_Witness ==
    /\ ZeroDivisor
    /\ DividendRead
    /\ ir.name = "MODH3"
    /\ ~InterruptTaken
    /\ ret.err = "IntegerZeroDivide"
    /\ r[R_PC] = W(Layout.code)
    /\ r[2] # <<0, 0>>
    /\ r = pre.r
(***************************************************************************)
(* C12.  Privileged instructions outside Kernel level.                     *)
(***************************************************************************)
Privileged == {"CALLPS", "RETPS", "ENBVJMP", "DISVJMP"}

\* bits 11-12 (CM) of a PSW
CmOf(psw) == (psw[2] \div 2048) % 4

\* the last step decoded a privileged instruction with CM not Kernel
PrivilegedOutsideKernel ==
    /\ Stepped
    /\ DecodeProbes # {}
    /\ Decoded.err = "Ok"
    /\ ir.name \in Privileged
    /\ CmOf(Decoded.r0[R_PSW]) # 0

\* C12: executing CALLPS, RETPS, ENBVJMP or DISVJMP while the current-mode
\* field of the PSW is not Kernel makes step_with_error return
\* PrivilegedOpcode, and the check comes before any effect: PC, PSW, PCBP,
\* ISP, every other register and all memory, the interrupt stack included,
\* are as they were when the instruction was decoded, which, when no
\* interrupt was entered first, is as they were before the step.
C12_PrivilegeCheckedFirst ==
    PrivilegedOutsideKernel =>
        /\ ret.err = "PrivilegedOpcode"
        /\ r = Decoded.r0
        /\ mem = Decoded.mem0
        /\ ~InterruptTaken => (r = pre.r /\ mem = pre.mem)

\* CALLPS met at user level: the error came back, ISP and the PCB pointer
\* where the host had put them.
C12_Witness ==
    /\ PrivilegedOutsideKernel
    /\ ir.name = "CALLPS"
    /\ CmOf(pre.r[R_PSW]) = 3
    /\ ~InterruptTaken
    /\ ret.err = "PrivilegedOpcode"
    /\ r[R_ISP] = W(Layout.int_stack + 4)
    /\ r[R_PC] = W(Layout.code)
    /\ r = pre.r
(***************************************************************************)
(* C13.  Bus errors during a step.                                         *)
(***************************************************************************)
\* a bus access of the last call was refused by the bus
BusFault ==
    \E i \in 1..Len(log) :
        log[i][1] \in {"read", "write"} /\ ~BusOk(log[i][2], log[i][3])

\* C13 (as stated): every bus error raised by a bus access made during a
\* step, the accesses of interrupt entry included, is surfaced by
\* step_with_error as the error value Bus(that error); no bus error ends the
\* step in any other way.
C13_BusErrorsSurface ==
    (Stepped /\ BusFault) => ret.err = "Bus"
(***************************************************************************)
(* C14.  step and step_with_error.                                         *)
(***************************************************************************)
\* what step_with_error and dispatch make of the state a call starts from
\* when the bus answers get_interrupts() with v
Strict(v) == step_with_error(Machine, v).m
Dispatched(v) == dispatch(Machine, v).m

\* C14: step and step_with_error are the same transition: from the same CPU
\* and bus state they leave the same registers, step counter, instruction
\* register and memory; step_with_error returns the error and step returns
\* nothing; and when the instruction fails the PC is the one dispatch left,
\* no increment added, under both.
C14_StepIsStepWithError ==
    [][ret'.call = "step" =>
           /\ r' = Strict(irq').r
           /\ ir' = Strict(irq').ir
           /\ steps' = Strict(irq').steps
           /\ mem' = Strict(irq').mem
           /\ ret'.err = IF Strict(irq').err = "Panic" THEN "Panic" ELSE "Ok"
           /\ Strict(irq').err # "Ok" =>
                  /\ r'[R_PC] = Dispatched(irq').r[R_PC]
                  /\ Strict(irq').r[R_PC] = Dispatched(irq').r[R_PC]]_vars

\* step met a byte that is no opcode: it returned, the error swallowed, and
\* the PC is where it was.
C14_Witness ==
    /\ ret.call = "step"
    /\ ret.err = "Ok"
    /\ DecodeProbes # {}
    /\ UnknownOpcode
    /\ ~InterruptTaken
    /\ steps = 1
    /\ r[R_PC] = W(Layout.code)
    /\ r = pre.r
(***************************************************************************)
(* C15.  The PSW helpers write their own field only.                       *)
(***************************************************************************)
\* bit i of a word
WordBit(w, i) == IF i >= 16 THEN (w[1] \div (2 ^ (i - 16))) % 2 ELSE (w[2] \div (2 ^ i)) % 2

LastCall == hist[Len(hist)]

\* the bit a flag helper owns
FlagBit == [set_c_flag |-> 18, set_v_flag |-> 19, set_z_flag |-> 20, set_n_flag |-> 21]
FlagHelpers == {"set_c_flag", "set_v_flag", "set_z_flag", "set_n_flag"}

\* every register but the PSW is as it was before the call
OtherRegistersKept == \A i \in 0..15 : i # R_PSW => r[i] = pre.r[i]

\* C15: set_c_flag, set_v_flag, set_z_flag and set_n_flag set or clear bit
\* 18, 19, 20 and 21 of the PSW and nothing else; set_isc(v) sets bits 3-6 to
\* v mod 16 (set_isc(16) clears them); whatever the PSW was and whatever
\* calls came before, every other PSW bit and every other register is as it
\* was before the call.
C15_HelpersWriteOwnField ==
    /\ (hist # <<>> /\ LastCall.call \in FlagHelpers) =>
          /\ \A i \in 0..31 :
                 WordBit(r[R_PSW], i) =
                     IF i = FlagBit[LastCall.call] THEN LastCall.arg
                     ELSE WordBit(pre.r[R_PSW], i)
          /\ OtherRegistersKept
    /\ (hist # <<>> /\ LastCall.call = "set_isc") =>
          /\ \A i \in 0..31 :
                 WordBit(r[R_PSW], i) =
                     IF i \in 3..6 THEN ((LastCall.arg % 16) \div (2 ^ (i - 3))) % 2
                     ELSE WordBit(pre.r[R_PSW], i)
          /\ OtherRegistersKept

\* After a flag was set on a PSW of all zeros, set_isc(16) was called on it:
\* the ISC is 0, the I bit is still clear and the flag still set.
C15_Witness ==
    /\ Len(hist) = 2
    /\ hist[1].call \in FlagHelpers
    /\ hist[1].arg = 1
    /\ LastCall = [call |-> "set_isc", arg |-> 16]
    /\ r[R_PSW][2] = 0
    /\ r[R_PSW][1] \in {4, 8, 16, 32}

(***************************************************************************)
(* C16.  set_priv_level.                                                   *)
(***************************************************************************)
\* bits 9-10 (PM) of a PSW
PmOf(psw) == (psw[2] \div 512) % 4

\* C16: set_priv_level(L) copies CM (PSW bits 11-12) into PM (bits 9-10),
\* then writes L into CM, and leaves every other PSW bit (and register) as it
\* was; so after set_priv_level(A) followed by set_priv_level(B),
\* priv_level() answers B and PM holds A.
C16_PrivLevelKeepsPrevious ==
    /\ (hist # <<>> /\ LastCall.call = "set_priv_level") =>
          /\ PmOf(r[R_PSW]) = CmOf(pre.r[R_PSW])
          /\ CmOf(r[R_PSW]) = LastCall.arg
          /\ priv_level(Machine) = LastCall.arg
          /\ \A i \in (0..31) \ (9..12) :
                 WordBit(r[R_PSW], i) = WordBit(pre.r[R_PSW], i)
          /\ OtherRegistersKept
    /\ (/\ Len(hist) >= 2
        /\ LastCall.call = "set_priv_level"
        /\ hist[Len(hist) - 1].call = "set_priv_level") =>
          /\ priv_level(Machine) = LastCall.arg
          /\ PmOf(r[R_PSW]) = hist[Len(hist) - 1].arg

\* set_priv_level(Supervisor), then set_priv_level(Executive), on a PSW
\* that started at user level.
C16_Witness ==
    /\ Len(hist) = 2
    /\ hist[1] = [call |-> "set_priv_level", arg |-> 2]
    /\ hist[2] = [call |-> "set_priv_level", arg |-> 1]
    /\ r[R_PSW] = <<16, 256 + 2048 + 1024>>
(***************************************************************************)
(* C17.  ADD and INC: the stored sum and the flags.                        *)
(***************************************************************************)
AddNames ==
    {"ADDW2", "ADDH2", "ADDB2", "ADDW3", "ADDH3", "ADDB3", "INCW", "INCH", "INCB"}

\* the destination operand of the ADD or INC the last step executed, its
\* width, and the two values added
AddDst == CASE ir.name \in {"INCW", "INCH", "INCB"} -> 0
            [] ir.name \in {"ADDW2", "ADDH2", "ADDB2"} -> 1
            [] OTHER -> 2
AddWidth == CASE Operand_data_type(ir.operands[AddDst]) \in {"Word", "UWord"} -> 32
              [] Operand_data_type(ir.operands[AddDst]) \in {"Half", "UHalf"} -> 16
              [] OTHER -> 8
AddA == read_op(MachineDecoded, 0).val
AddB == IF AddDst = 0 THEN <<0, 1>> ELSE read_op(MachineDecoded, 1).val

\* the low 32 bits of a + b, and whether a + b reaches 2^32
AddSum == AddW(AddA, AddB)
AddBit32 == AddA[1] + AddB[1] + (AddA[2] + AddB[2]) \div 65536 >= 65536

\* the low w bits of a word, as a number for w < 32
LowBits(x, w) == CASE w = 32 -> x [] w = 16 -> <<0, x[2]>> [] OTHER -> <<0, x[2] % 256>>

\* what the destination holds after the step
AddStored == read_op([MachineDecoded EXCEPT !.r = r, !.mem = mem], AddDst).val

\* C17 (as stated): for ADD and INC at destination width w the stored
\* result is (a + b) mod 2^w, N is bit w-1 of the result, Z is set iff the
\* low w bits of the result are zero, C is set iff the sum exceeds the
\* unsigned maximum at width w, and V is set iff a and b agree in bit w-1 and
\* the result differs from them there (a and b being the operand values as
\* read, the destination's width being that of its expanded type if it has
\* one).
C17_AddSetsFlagsAtDestinationWidth ==
    (Executed /\ ir.name \in AddNames) =>
        /\ LowBits(AddStored, AddWidth) = LowBits(AddSum, AddWidth)
        /\ WordBit(r[R_PSW], 21) = WordBit(AddSum, AddWidth - 1)
        /\ WordBit(r[R_PSW], 20) = 1 <=> LowBits(AddSum, AddWidth) = <<0, 0>>
        /\ WordBit(r[R_PSW], 18) = 1 <=>
               (AddBit32 \/ LowBits(AddSum, AddWidth) # AddSum)
        /\ WordBit(r[R_PSW], 19) = 1 <=>
               /\ WordBit(AddA, AddWidth - 1) = WordBit(AddB, AddWidth - 1)
               /\ WordBit(AddA, AddWidth - 1) # WordBit(AddSum, AddWidth - 1)
(***************************************************************************)
(* C18.  CALL and RET.                                                     *)
(***************************************************************************)
\* the call before the last one
CallBefore == hist[Len(hist) - 1]

Ran(h, name) == h.name = name /\ h.err = "Ok"

\* the address an operand of the executed CALL names, from the registers
\* the CALL started with
NamedAddress(op, regs) ==
    IF op.mode = "Absolute" THEN op.embedded ELSE regs[op.register]

\* C18: CALL(src, dst) stores the return PC (the address of the instruction
\* after the CALL) at [SP] and the old AP at [SP + 4], sets SP = SP + 8, AP =
\* the address of src and PC = the address of dst; and when RET is the next
\* instruction executed (no interrupt entered in between), then after it PC
\* is that return PC, AP is the AP from before the CALL and SP is the src
\* address the CALL loaded into AP.
C18_CallThenRet ==
    /\ (hist # <<>> /\ Ran(LastCall, "CALL")) =>
          /\ ir.operands[0].mode \in {"Absolute", "RegisterDeferred"}
          /\ read_word(mem, usize(LastCall.r[R_SP])) =
                 AddW(LastCall.r[R_PC], W(LastCall.bytes))
          /\ read_word(mem, usize(LastCall.r[R_SP]) + 4) = LastCall.r[R_AP]
          /\ r[R_SP] = AddW(LastCall.r[R_SP], W(8))
          /\ r[R_AP] = NamedAddress(ir.operands[0], LastCall.r)
          /\ r[R_PC] = NamedAddress(ir.operands[1], LastCall.r)
    /\ (Len(hist) >= 2 /\ Ran(CallBefore, "CALL") /\ Ran(LastCall, "RET")) =>
          /\ r[R_PC] = AddW(CallBefore.r[R_PC], W(CallBefore.bytes))
          /\ r[R_AP] = CallBefore.r[R_AP]
          /\ r[R_SP] = LastCall.r[R_AP]

\* CALL $0x620,$0x710 was followed by the RET at 0x710: the PC is behind
\* the eleven bytes of the CALL, AP is back, and SP is 0x620.
C18_Witness ==
    /\ Len(hist) = 2
    /\ Ran(CallBefore, "CALL")
    /\ CallBefore.bytes = 11
    /\ Ran(LastCall, "RET")
    /\ r[R_PC] = W(Layout.code + 11)
    /\ r[R_AP] = W(Layout.stack + 16)
    /\ r[R_SP] = W(1568)

(***************************************************************************)
(* C19.  SAVE and RESTORE.                                                 *)
(***************************************************************************)
\* the words SAVE(reg) wrote, read from a memory: FP and R[reg]..R[8]
SavedWords(mm, sp, reg) == [k \in 0..(9 - reg) |-> read_word(mm, usize(sp) + 4 * k)]

\* from the SAVE that was call k up to the last call, FP and the saved words
\* were left as that SAVE left them
FrameKept(k) ==
    \A j \in (k + 1)..Len(hist) :
        /\ hist[j].r[R_FP] = hist[k + 1].r[R_FP]
        /\ SavedWords(hist[j].mem, hist[k].r[R_SP], hist[k].reg) =
               SavedWords(hist[k + 1].mem, hist[k].r[R_SP], hist[k].reg)

\* call k was a SAVE(reg) and the last call the RESTORE(reg) of its frame
SavedThenRestored(k) ==
    /\ k < Len(hist)
    /\ Ran(hist[k], "SAVE")
    /\ hist[k].reg \in 0..8
    /\ Ran(LastCall, "RESTORE")
    /\ LastCall.reg = hist[k].reg
    /\ FrameKept(k)

\* C19: SAVE(reg) writes FP at [SP] and R[reg]..R[8] at the words after it,
\* then sets SP = SP + 28 and FP = SP; RESTORE(reg) reverses it: for every
\* reg in 0..8, after SAVE(reg), any changes that leave FP and the saved
\* words untouched, and RESTORE(reg), the registers R[reg]..R[8], FP and SP
\* hold their values from before the SAVE, and RESTORE changed no register
\* below reg.
C19_SaveThenRestore ==
    /\ (hist # <<>> /\ Ran(LastCall, "SAVE") /\ LastCall.reg \in 0..8) =>
          /\ read_word(mem, usize(LastCall.r[R_SP])) = LastCall.r[R_FP]
          /\ \A i \in LastCall.reg..8 :
                 read_word(mem, usize(LastCall.r[R_SP]) + 4 * (i - LastCall.reg + 1))
                     = LastCall.r[i]
          /\ r[R_SP] = AddW(LastCall.r[R_SP], W(28))
          /\ r[R_FP] = r[R_SP]
    /\ \A k \in 1..Len(hist) :
          SavedThenRestored(k) =>
              /\ \A i \in hist[k].reg..8 : r[i] = hist[k].r[i]
              /\ r[R_FP] = hist[k].r[R_FP]
              /\ r[R_SP] = hist[k].r[R_SP]
              /\ \A i \in 0..(hist[k].reg - 1) : r[i] = LastCall.r[i]

\* SAVE %r3, then the host overwrote r5, then RESTORE %r3: r5 is back.
C19_Witness ==
    /\ Len(hist) = 3
    /\ SavedThenRestored(1)
    /\ hist[1].reg = 3
    /\ hist[2].name = "assign"
    /\ hist[2].reg = 5
    /\ LastCall.r[5] = <<57005, 48879>>
    /\ r[5] = <<4369 * 5, 256 * 5 + 1>>
    /\ r[R_SP] = W(Layout.stack + 48)
(***************************************************************************)
(* C20.  BPT and HALT.                                                     *)
(***************************************************************************)
\* C20 (as stated): executing BPT (0x2E) or HALT (0x00) fails with an error
\* that step_with_error returns to the caller: the call comes back, the
\* emulator is not aborted, and the PC is where it was when the instruction
\* was decoded.
C20_BptHaltReturnAnError ==
    (Stepped /\ DecodeProbes # {} /\ Decoded.err = "Ok" /\ ir.name \in {"BPT", "halt"}) =>
        /\ ret.err \notin {"Ok", "Panic"}
        /\ r[R_PC] = Decoded.r0[R_PC]

(***************************************************************************)
(* C21: within one instruction every effective-address fetch of a          *)
(* deferred operand is issued before any memory write of the instruction   *)
(* (and the writes before the register updates).  Read off the log of a    *)
(* successful step that took no interrupt: the fetch of the pointer of an  *)
(* absolute-deferred operand comes before every write.                     *)
(***************************************************************************)
\* positions in the log of the fetch of operand k's pointer
PointerFetches(k) ==
    {i \in At("read") : /\ log[i][2] = usize(ir.operands[k].embedded)
                        /\ log[i][3] = 4
                        /\ \E d \in At("decode") : d < i}

C21_AddressFetchesBeforeWrites ==
    (Stepped /\ ret.err = "Ok" /\ ~InterruptTaken) =>
        \A k \in 0..(ir.operand_count - 1) :
            ir.operands[k].mode = "AbsoluteDeferred" =>
                \A i \in PointerFetches(k), j \in At("write") : i < j

(***************************************************************************)
(* C22: a failed step has no effect.  Whenever step_with_error returns an  *)
(* error, every register and every memory word is as it was before the     *)
(* step (the step counter and the instruction register may differ).        *)
(***************************************************************************)
C22_FailedStepChangesNothing ==
    (Stepped /\ ret.err \notin {"Ok", "Panic"}) =>
        /\ r = pre.r
        /\ mem = pre.mem

(***************************************************************************)
(* C23: interrupt entry.  on_interrupt(v) reads new_PCBP from [0x8C + 4v], *)
(* pushes the old PCBP on the interrupt stack, gives the outgoing PSW      *)
(* ISC = 0, TM = 0, ET = 1 before phase 1 saves it, runs phases 1 and 2,   *)
(* gives the incoming PSW ISC = 7, ET = 3, TM = 0 and runs phase 3; after  *)
(* it the old PCB holds the interrupted PC and SP, and PC and SP are the   *)
(* words at [new_PCBP + 4] and [new_PCBP + 8].                             *)
(***************************************************************************)
\* the first probe a phase left in the last step
FirstProbe(phase) ==
    probe[CHOOSE k \in 1..Len(probe) :
              /\ probe[k].phase = phase
              /\ \A j \in 1..(k - 1) : probe[j].phase # phase]

\* ISC (bits 3..6), TM (bit 2) and ET (bits 0..1) of a PSW
IscOf(psw) == (psw[2] \div 8) % 16
TmOf(psw) == (psw[2] \div 4) % 2
EtOf(psw) == psw[2] % 4

\* the last step entered an interrupt and the entry ran to its end
Entered == Stepped /\ InterruptTaken /\ ret.err # "Panic"

C23_InterruptEntryInOrder ==
    Entered =>
        LET i == CHOOSE k \in At("on_interrupt") : TRUE
            va == 140 + 4 * log[i][2]
            new_pcbp == read_word(pre.mem, va)
            old_pcbp == pre.r[R_PCBP]
            cs1 == FirstProbe("cs1")
            cs2 == FirstProbe("cs2")
            cs3 == FirstProbe("cs3")
        IN  \* the vector is read, then the old PCBP is pushed
            /\ log[i + 1] = <<"read", va, 4>>
            /\ log[i + 2] = <<"write", usize(pre.r[R_ISP]), 4>>
            /\ read_word(cs1.mem0, usize(pre.r[R_ISP])) = old_pcbp
            /\ cs1.r0[R_ISP] = AddW(pre.r[R_ISP], W(4))
            \* the outgoing PSW is marked before phase 1 saves it
            /\ IscOf(cs1.r0[R_PSW]) = 0 /\ TmOf(cs1.r0[R_PSW]) = 0 /\ EtOf(cs1.r0[R_PSW]) = 1
            /\ cs1.arg = new_pcbp
            /\ read_word(cs1.mem1, usize(old_pcbp)) = cs1.r1[R_PSW]
            /\ IscOf(cs1.r1[R_PSW]) = 0 /\ TmOf(cs1.r1[R_PSW]) = 0 /\ EtOf(cs1.r1[R_PSW]) = 1
            \* phase 2 follows phase 1
            /\ cs2.arg = new_pcbp
            /\ cs2.r0 = cs1.r1 /\ cs2.mem0 = cs1.mem1
            \* the incoming PSW is marked between phase 2 and phase 3
            /\ IscOf(cs3.r0[R_PSW]) = 7 /\ TmOf(cs3.r0[R_PSW]) = 0 /\ EtOf(cs3.r0[R_PSW]) = 3
            /\ \A x \in (0..15) \ {R_PSW} : cs3.r0[x] = cs2.r1[x]
            /\ cs3.mem0 = cs2.mem1
            \* what the entry leaves
            /\ read_word(cs3.mem1, usize(old_pcbp) + 4) = pre.r[R_PC]
            /\ read_word(cs3.mem1, usize(old_pcbp) + 8) = pre.r[R_SP]
            /\ cs3.r1[R_PC] = read_word(cs3.mem1, usize(new_pcbp) + 4)
            /\ cs3.r1[R_SP] = read_word(cs3.mem1, usize(new_pcbp) + 8)

\* An interrupt was entered from a PSW with ISC, TM and ET other than 0, 0, 1,
\* the handler's PCB asked for the block moves, and the handler ran.
C23_Witness ==
    /\ Entered
    /\ ret.err = "Ok"
    /\ IscOf(pre.r[R_PSW]) = 5 /\ TmOf(pre.r[R_PSW]) = 1 /\ EtOf(pre.r[R_PSW]) = 2
    /\ FirstProbe("cs3").mem1 # FirstProbe("cs3").mem0
    /\ FirstProbe("cs3").r1[R_PC] # pre.r[R_PC]

(***************************************************************************)
(* C24: after phase 2 of any context switch the live PSW has the I-bit and *)
(* TM clear, PC and SP are the words at [new_PCBP + 4] and [new_PCBP + 8], *)
(* PCBP is new_PCBP + 12 if the PSW stored at new_PCBP had the I-bit set   *)
(* and new_PCBP otherwise, and the load has not written to memory.         *)
(***************************************************************************)
\* the phases 2 the last call ran to their end
Phase2Probes == {k \in 1..Len(probe) : probe[k].phase = "cs2" /\ probe[k].err = "Ok"}

C24_Phase2LoadsTheNewContext ==
    \A k \in Phase2Probes :
        LET p == probe[k]
            new_pcbp == p.arg
            stored == read_word(p.mem0, usize(new_pcbp))
        IN  /\ IBit(p.r1[R_PSW]) = 0
            /\ TmOf(p.r1[R_PSW]) = 0
            /\ p.r1[R_PC] = read_word(p.mem0, usize(new_pcbp) + 4)
            /\ p.r1[R_SP] = read_word(p.mem0, usize(new_pcbp) + 8)
            /\ p.r1[R_PCBP] = IF IBit(stored) = 1 THEN AddW(new_pcbp, W(12)) ELSE new_pcbp
            /\ p.mem1 = p.mem0
            /\ read_word(p.mem1, usize(new_pcbp)) = stored

\* Phase 2 loaded a PSW stored with the I-bit and TM set, stepped over the
\* initial context and changed PC.
C24_Witness ==
    \E k \in Phase2Probes :
        /\ IBit(read_word(probe[k].mem0, usize(probe[k].arg))) = 1
        /\ TmOf(read_word(probe[k].mem0, usize(probe[k].arg))) = 1
        /\ probe[k].r1[R_PCBP] # probe[k].arg
        /\ probe[k].r1[R_PC] # probe[k].r0[R_PC]

(***************************************************************************)
(* C25: RETPS at Kernel level lowers ISP by 4 and takes new_PCBP from      *)
(* [ISP], loads PSW, PC and SP from new_PCBP, and reloads FP, R0..R8 and   *)
(* AP from new_PCBP + 24, + 28..+ 60 and + 20 if and only if the R-bit of  *)
(* the PSW stored at new_PCBP is set; when it is clear, R0..R8, FP and AP  *)
(* are as before the RETPS and nothing is written.                         *)
(***************************************************************************)
Returned_RETPS == Executed /\ Decoded.err = "Ok" /\ ir.name = "RETPS"

\* the PCB the RETPS returned to, and the PSW stored in it
RetpsPcbp == read_word(Decoded.mem0, usize(SubW(Decoded.r0[R_ISP], W(4))))
RetpsPsw == read_word(Decoded.mem0, usize(RetpsPcbp))

C25_RetpsReloadsIffRBit ==
    Returned_RETPS =>
        /\ r[R_ISP] = SubW(Decoded.r0[R_ISP], W(4))
        /\ r[R_PSW] = AndW(RetpsPsw, NotW(OrW(F_TM, F_I)))
        /\ r[R_PC] = read_word(Decoded.mem0, usize(RetpsPcbp) + 4)
        /\ r[R_SP] = read_word(Decoded.mem0, usize(RetpsPcbp) + 8)
        /\ IF RBit(RetpsPsw) = 1
           THEN \A k \in 1..Len(PcbRegisters) :
                    r[PcbRegisters[k][2]] =
                        read_word(mem, usize(RetpsPcbp) + PcbRegisters[k][1])
           ELSE /\ \A x \in 0..10 : r[x] = Decoded.r0[x]
                /\ mem = Decoded.mem0
                /\ \A j \in At("write") : \E d \in At("decode") : j < d

\* RETPS returned to a PCB whose PSW has the R-bit set and the registers
\* changed to the words of that PCB.
C25_Witness ==
    /\ Returned_RETPS
    /\ ~InterruptTaken
    /\ RBit(RetpsPsw) = 1
    /\ \A x \in 3..8 : r[x] # pre.r[x]
    /\ r[R_FP] # pre.r[R_FP] /\ r[R_AP] # pre.r[R_AP]

(***************************************************************************)
(* C26: a successful reset sets PCBP to the word at 0x80 and PSW, PC and   *)
(* SP to the words at [PCBP], [PCBP + 4] and [PCBP + 8]; an I-bit set in   *)
(* the loaded PSW is cleared and PCBP is advanced by 12; the PSW's ISC is  *)
(* then 3 and its other bits are those read from memory.  R0..R10 and ISP  *)
(* are unchanged, and reset fails only with a bus error.                   *)
(***************************************************************************)
\* the PCB the reset vector names in the memory the reset started from
ResetPcbp == read_word(pre.mem, 128)
ResetPsw == read_word(pre.mem, usize(ResetPcbp))

Displacement(h) ==
    LET pc == usize(h.r[R_PC])
        b == read_byte(h.mem, pc + 1)
        hw == b + 256 * read_byte(h.mem, pc + 2)
    IN  IF read_byte(h.mem, pc) % 2 = 1
        THEN IF b >= 128 THEN b - 256 ELSE b
        ELSE IF hw >= 32768 THEN hw - 65536 ELSE hw

\* the effective address of a destination operand, from the registers and
\* the memory the instruction started with
Destination(op, regs, mm) ==
    CASE op.mode = "Absolute" -> op.embedded
      [] op.mode = "AbsoluteDeferred" -> read_word(mm, usize(op.embedded))
      [] op.mode = "ByteDisplacementDeferred" ->
            read_word(mm, usize(regs[op.register]) + Displacement([r |-> regs, mem |-> mm]))

Subroutine(h) == h.err = "Ok" /\ h.name \in {"JSB", "BSBH", "BSBB"}

C27_SubroutineCallThenRsb ==
    /\ (hist # <<>> /\ Subroutine(LastCall)) =>
          /\ LastCall.name = "BSBB" => LastCall.bytes = 2
          /\ LastCall.name = "BSBH" => LastCall.bytes = 3
          /\ read_word(mem, usize(LastCall.r[R_SP])) =
                 AddW(LastCall.r[R_PC], W(LastCall.bytes))
          /\ r[R_SP] = AddW(LastCall.r[R_SP], W(4))
          /\ usize(r[R_PC]) =
                 IF LastCall.name = "JSB"
                 THEN usize(Destination(ir.operands[0], LastCall.r, LastCall.mem))
                 ELSE usize(LastCall.r[R_PC]) + Displacement(LastCall)
    /\ (Len(hist) >= 2 /\ Subroutine(CallBefore) /\ Ran(LastCall, "RSB")) =>
          /\ r[R_PC] = AddW(CallBefore.r[R_PC], W(CallBefore.bytes))
          /\ r[R_SP] = CallBefore.r[R_SP]

(***************************************************************************)
(* C28: after a successful step of a conditional branch PC is the branch's *)
(* address plus its sign-extended displacement when the condition holds    *)
(* and the branch's address plus its length (2 or 3) when it does not, and *)
(* no other register, no flag and no memory word has changed.              *)
(***************************************************************************)
\* the condition a mnemonic stands for, by the table of the claim
Holds(cc, psw) ==
    LET N == AndW(psw, F_N) # <<0, 0>>
        Z == AndW(psw, F_Z) # <<0, 0>>
        V == AndW(psw, F_V) # <<0, 0>>
        C == AndW(psw, F_C) # <<0, 0>>
    IN  CASE cc = "E" -> Z
          [] cc = "NE" -> ~Z
          [] cc = "G" -> ~N /\ ~Z
          [] cc = "GE" -> ~N \/ Z
          [] cc = "L" -> N /\ ~Z
          [] cc = "LE" -> N \/ Z
          [] cc = "GU" -> ~C /\ ~Z
          [] cc = "GEU" -> ~C
          [] cc = "LU" -> C
          [] cc = "LEU" -> C \/ Z
          [] cc = "VC" -> ~V
          [] cc = "VS" -> V
          [] cc = "R" -> TRUE

BranchCondition ==
    [BEH |-> "E", BEB |-> "E", BNEH |-> "NE", BNEB |-> "NE", BGH |-> "G", BGB |-> "G",
     BGEH |-> "GE", BGEB |-> "GE", BLH |-> "L", BLB |-> "L", BLEH |-> "LE",
     BLEB |-> "LE", BGUH |-> "GU", BGUB |-> "GU", BGEUH |-> "GEU", BGEUB |-> "GEU",
     BLUH |-> "LU", BLUB |-> "LU", BLEUH |-> "LEU", BLEUB |-> "LEU", BVCH |-> "VC",
     BVCB |-> "VC", BVSH |-> "VS", BVSB |-> "VS", BRH |-> "R", BRB |-> "R"]

Branched == hist # <<>> /\ LastCall.err = "Ok" /\ LastCall.name \in DOMAIN BranchCondition

C28_BranchesMoveOnlyPc ==
    Branched =>
        /\ usize(r[R_PC]) =
              usize(LastCall.r[R_PC]) +
                  (IF Holds(BranchCondition[LastCall.name], LastCall.r[R_PSW])
                   THEN Displacement(LastCall)
                   ELSE IF read_byte(LastCall.mem, usize(LastCall.r[R_PC])) % 2 = 1
                        THEN 2 ELSE 3)
        /\ \A x \in 0..14 : r[x] = LastCall.r[x]
        /\ mem = LastCall.mem

\* BLEH was taken backwards on Z alone.
C28_Witness ==
    /\ Branched
    /\ LastCall.name = "BLEH"
    /\ LastCall.r[R_PSW][1] = 17
    /\ usize(r[R_PC]) = usize(LastCall.r[R_PC]) - 16

(***************************************************************************)
(* C29: every conditional return uses the flag condition of the branch of  *)
(* the same name: R<cc> pops PC from the stack exactly when B<cc> would be *)
(* taken, and otherwise advances PC by 1 and leaves SP unchanged.          *)
(***************************************************************************)
ReturnCondition ==
    [RGEQ |-> "GE", RGTR |-> "G", RLSS |-> "L", RLEQ |-> "LE", RGEQU |-> "GEU",
     RGTRU |-> "GU", RLSSU |-> "LU", RLEQU |-> "LEU", RVC |-> "VC", RVS |-> "VS",
     REQL |-> "E", RNEQ |-> "NE"]

C29_ReturnsUseTheBranchCondition ==
    (hist # <<>> /\ LastCall.name \in DOMAIN ReturnCondition) =>
        /\ LastCall.err = "Ok"
        /\ IF Holds(ReturnCondition[LastCall.name], LastCall.r[R_PSW])
           THEN /\ r[R_PC] = read_word(LastCall.mem, usize(LastCall.r[R_SP]) - 4)
                /\ r[R_SP] = SubW(LastCall.r[R_SP], W(4))
           ELSE /\ r[R_PC] = AddW(LastCall.r[R_PC], W(1))
                /\ r[R_SP] = LastCall.r[R_SP]

(***************************************************************************)
(* C30: an expanded-type prefix overrides the width of the operand it      *)
(* prefixes only.  In a decoded instruction an operand whose own           *)
(* descriptor is not behind a prefix byte has no expanded type and the     *)
(* opcode's data type, whatever the operands before it carried.            *)
(***************************************************************************)
\* the bytes of the decoded instruction's operands before operand i
RECURSIVE SizesBefore(_)
SizesBefore(i) == IF i = 0 THEN 0 ELSE SizesBefore(i - 1) + ir.operands[i - 1].size

\* the address operand i of the decoded instruction starts at
OperandAddress(i) ==
    usize(pre.r[R_PC]) + (ir.bytes - SizesBefore(ir.operand_count)) + SizesBefore(i)

C30_PrefixCoversItsOperandOnly ==
    DecodedInstruction =>
        \A i \in 0..(ir.operand_count - 1) :
            ~IsPrefix(read_byte(pre.mem, OperandAddress(i))) =>
                /\ ir.operands[i].expanded_type = "Nothing"
                /\ Operand_data_type(ir.operands[i]) = ir.data_type

(***************************************************************************)
(* C31: phase 3 of a context switch changes no register and no memory when *)
(* the R-bit of the PSW is clear; when it is set and the list at PCBP + 64 *)
(* ends with a count of 0 and no bus error arises, the phase ends having   *)
(* copied, entry by entry, the count words behind each (count,             *)
(* destination) pair to destination, destination + 4, ..., and R2 = 0.     *)
(***************************************************************************)
\* the phases 3 the last call ran to their end
Phase3Probes == {k \in 1..Len(probe) : probe[k].phase = "cs3" /\ probe[k].err = "Ok"}

\* mm after n words of the list in memory list, from address a on, are
\* stored from address d on
RECURSIVE WordsCopied(_, _, _, _, _)
WordsCopied(list, mm, a, d, n) ==
    IF n = 0 THEN mm
    ELSE WordsCopied(list, write_word(mm, d, read_word(list, a)), a + 4, d + 4, n - 1)

\* mm after the entries of the list from address a on are copied; an entry is
\* a count, a destination and count words, and a count of 0 ends the list
RECURSIVE ListCopied(_, _, _)
ListCopied(list, mm, a) ==
    LET n == usize(read_word(list, a))
    IN  IF n = 0 THEN mm
        ELSE ListCopied(list,
                        WordsCopied(list, mm, a + 8, usize(read_word(list, a + 4)), n),
                        a + 8 + 4 * n)

C31_Phase3CopiesTheBlockList ==
    \A k \in Phase3Probes :
        LET p == probe[k]
        IN  IF RBit(p.r0[R_PSW]) = 0
            THEN p.r1 = p.r0 /\ p.mem1 = p.mem0
            ELSE /\ p.r1[2] = <<0, 0>>
                 /\ p.mem1 = ListCopied(p.mem0, p.mem0, usize(p.r0[R_PCBP]) + 64)
                 /\ \A x \in 3..15 : p.r1[x] = p.r0[x]

\* Phase 3 copied a list of two entries whose destinations overlap: the
\* second entry's word lies over the second word of the first.
C31_Witness ==
    \E k \in Phase3Probes :
        /\ RBit(probe[k].r0[R_PSW]) = 1
        /\ read_word(probe[k].mem0, usize(probe[k].r0[R_PCBP]) + 64) = <<0, 2>>
        /\ read_word(probe[k].mem1, Layout.block_dest) = <<51966, 47806>>
        /\ read_word(probe[k].mem1, Layout.block_dest + 4) = <<4660, 22136>>
        /\ read_word(probe[k].mem0, Layout.block_dest) = <<0, 0>>

(***************************************************************************)
(* C32: on entry to every step PC addresses the next instruction.  After a *)
(* successful step of an instruction that is not a branch, jump, call,     *)
(* return or context switch PC has advanced by the length of that          *)
(* instruction in the stream (2 for NOP2, 3 for NOP3), so that the k-th    *)
(* step of a straight-line program decodes its k-th instruction; NOP, NOP2 *)
(* and NOP3 change no register but PC and no memory.                       *)
(***************************************************************************)
\* the bytes a descriptor-encoded operand at address a occupies: prefix
\* bytes, descriptor byte and embedded bytes
RECURSIVE OperandLength(_, _)
OperandLength(mm, a) ==
    LET mode == read_byte(mm, a) \div 16
        reg == read_byte(mm, a) % 16
    IN  CASE mode = 14 /\ reg \in {0, 2, 3, 4, 6, 7} -> 1 + OperandLength(mm, a + 1)
          [] mode \in {4, 7, 14} /\ reg = 15 -> 5
          [] mode = 5 /\ reg = 15 -> 3
          [] mode = 6 /\ reg = 15 -> 2
          [] mode \in {8, 9} -> 5
          [] mode \in {10, 11} -> 3
          [] mode \in {12, 13} -> 2
          [] OTHER -> 1

\* the bytes the first n operands of the instruction at address a occupy
RECURSIVE OperandsLength(_, _, _)
OperandsLength(mm, a, n) ==
    IF n = 0 THEN 0
    ELSE OperandsLength(mm, a, n - 1)
         + OperandLength(mm, a + 1 + OperandsLength(mm, a, n - 1))

\* the bytes the instruction at address a occupies (one-byte opcodes with
\* descriptor operands)
InstructionLength(mm, a) ==
    LET mn == mnemonic(read_byte(mm, a))
    IN  CASE mn[3] = "NOP2" -> 2
          [] mn[3] = "NOP3" -> 3
          [] OTHER -> 1 + OperandsLength(mm, a, Len(mn[4]))

\* the instructions of the data programs that do not transfer control
Sequential ==
    {"NOP", "NOP2", "NOP3", "MOVW", "MOVH", "MOVB", "PUSHW", "INCW", "INCH", "INCB",
     "SUBW2", "SUBH2", "SUBB2", "SUBW3", "SUBH3", "SUBB3", "DECW", "DECH", "DECB",
     "DIVW2", "DIVH2", "DIVB2", "DIVW3", "DIVH3", "DIVB3", "EXTFW", "INSFW"}

C32_PcAdvancesByTheInstructionLength ==
    (Stepped /\ ret.err = "Ok" /\ hist # <<>> /\ LastCall.name \in Sequential)
    => /\ r[R_PC] = AddW(LastCall.r[R_PC],
                         W(InstructionLength(LastCall.mem, usize(LastCall.r[R_PC]))))
       /\ LastCall.name \in {"NOP", "NOP2", "NOP3"}
              => /\ \A i \in 0..14 : r[i] = LastCall.r[i]
                 /\ mem = LastCall.mem

(***************************************************************************)
(* C33: write_op to a Register-mode operand replaces the whole 32-bit      *)
(* register with the value, whatever the operand's width, and changes no   *)
(* other register and no memory; write_op to a memory-mode operand stores  *)
(* the low 8, 16 or 32 bits of the value in the 1, 2 or 4 bytes at the     *)
(* effective address and changes no other byte; write_op to a literal or   *)
(* immediate operand fails with IllegalOpcode and changes nothing.         *)
(***************************************************************************)
\* the operand the last read_op or write_op call was made on
Accessed == ir.operands[hist[1].index]

Literals ==
    {"PositiveLiteral", "NegativeLiteral", "ByteImmediate", "HalfwordImmediate",
     "WordImmediate"}

\* the address a memory-mode operand names under registers regs and memory mm
AddressOf(op, regs, mm) ==
    LET base == IF op.register \in 0..15 THEN regs[op.register] ELSE <<0, 0>>
        disp == CASE op.mode \in {"ByteDisplacement", "ByteDisplacementDeferred",
                                  "FPShortOffset", "APShortOffset"} ->
                        sign_extend_byte(op.embedded[2] % 256)
                  [] op.mode \in {"HalfwordDisplacement",
                                  "HalfwordDisplacementDeferred"} ->
                        sign_extend_halfword(op.embedded[2])
                  [] op.mode \in {"WordDisplacement", "WordDisplacementDeferred"} ->
                        op.embedded
                  [] OTHER -> <<0, 0>>
        named == IF op.mode \in {"Absolute", "AbsoluteDeferred"} THEN op.embedded
                 ELSE AddW(base, disp)
    IN  IF op.mode \in {"AbsoluteDeferred", "WordDisplacementDeferred",
                        "HalfwordDisplacementDeferred", "ByteDisplacementDeferred"}
        THEN read_word(mm, usize(named))
        ELSE named

\* the bytes an operand is read and written at
WidthOf(op) ==
    CASE Operand_data_type(op) \in {"Word", "UWord"} -> 4
      [] Operand_data_type(op) \in {"Half", "UHalf"} -> 2
      [] OTHER -> 1

\* mm with the low n bytes of val at a .. a + n - 1
StoredAt(mm, a, n, val) ==
    CASE n = 4 -> write_word(mm, a, val)
      [] n = 2 -> write_half(mm, a, val[2])
      [] OTHER -> write_byte(mm, a, val[2] % 256)

C33_WriteOpStoresAtWidth ==
    ret.call = "write_op" =>
        /\ (Accessed.mode = "Register" /\ ret.err = "Ok") =>
              /\ r = [pre.r EXCEPT ![Accessed.register] = hist[2]]
              /\ mem = pre.mem
        /\ (Accessed.mode \notin Literals \cup {"Register", "None"} /\ ret.err = "Ok") =>
              /\ r = pre.r
              /\ mem = StoredAt(pre.mem, usize(AddressOf(Accessed, pre.r, pre.mem)),
                                WidthOf(Accessed), hist[2])
        /\ Accessed.mode \in Literals =>
              ret.err = "IllegalOpcode" /\ r = pre.r /\ mem = pre.mem

\* 0xFFFFFF80 was written to {sbyte}%r1: the whole of r1 is the value.
C33_Witness ==
    /\ ret.call = "write_op"
    /\ ret.err = "Ok"
    /\ Accessed.mode = "Register"
    /\ Accessed.register = 1
    /\ Accessed.expanded_type = "SByte"
    /\ hist[2] = <<65535, 65408>>
    /\ r[1] = <<65535, 65408>>
    /\ pre.r[1] = W(1600)

(***************************************************************************)
(* C34: SUBx2, SUBx3 and DEC computing a - b at width w store (a - b) mod  *)
(* 2^w, set N and Z from the result at width w, set C iff b > a as         *)
(* unsigned values, and set V exactly when the signed difference is not    *)
(* representable at width w: when a and b differ in bit w-1 and the result *)
(* differs from a there (0x80000000 - 1 at Word sets V).                   *)
(***************************************************************************)
SubNames ==
    {"SUBW2", "SUBH2", "SUBB2", "SUBW3", "SUBH3", "SUBB3", "DECW", "DECH", "DECB"}

\* the destination operand of the SUB or DEC the last step executed, its
\* width, and the values a and b as the instruction read them
SubDst == CASE ir.name \in {"DECW", "DECH", "DECB"} -> 0
            [] ir.name \in {"SUBW2", "SUBH2", "SUBB2"} -> 1
            [] OTHER -> 2
SubWidth == 8 * WidthOf(ir.operands[SubDst])
SubA == read_op(MachineDecoded, IF SubDst = 0 THEN 0 ELSE 1).val
SubB == IF SubDst = 0 THEN <<0, 1>> ELSE read_op(MachineDecoded, 0).val
SubDifference == SubW(SubA, SubB)
SubStored == read_op([MachineDecoded EXCEPT !.r = r, !.mem = mem], SubDst).val

C34_SubSetsFlagsAtWidth ==
    (Executed /\ ir.name \in SubNames) =>
        /\ LowBits(SubStored, SubWidth) = LowBits(SubDifference, SubWidth)
        /\ WordBit(r[R_PSW], 21) = WordBit(SubDifference, SubWidth - 1)
        /\ WordBit(r[R_PSW], 20) = 1 <=> LowBits(SubDifference, SubWidth) = <<0, 0>>
        /\ WordBit(r[R_PSW], 18) = 1 <=>
               (SubB[1] > SubA[1] \/ (SubB[1] = SubA[1] /\ SubB[2] > SubA[2]))
        /\ WordBit(r[R_PSW], 19) = 1 <=>
               /\ WordBit(SubA, SubWidth - 1) # WordBit(SubB, SubWidth - 1)
               /\ WordBit(SubA, SubWidth - 1) # WordBit(SubDifference, SubWidth - 1)

(***************************************************************************)
(* C35: dividing the most negative value by -1 completes the instruction   *)
(* and sets V, at every width: DIVW with dividend 0x80000000 and divisor   *)
(* 0xFFFFFFFF, DIVH with dividend 0x8000 and divisor -1, DIVB with         *)
(* dividend 0x80 and divisor -1, the operands read from registers or       *)
(* literals at the opcode's width, make step_with_error return success     *)
(* with V set.                                                             *)
(***************************************************************************)
DivNames == {"DIVW2", "DIVH2", "DIVB2", "DIVW3", "DIVH3", "DIVB3"}

\* the width of the DIV the last step decoded, its divisor (operand 0) and
\* its dividend (operand 1) as read
DivWidth == 8 * WidthOf(ir.operands[1])
DivA == read_op(MachineDecoded, 0).val
DivB == read_op(MachineDecoded, 1).val

\* the last step decoded a DIV of the most negative value by -1, both at the
\* opcode's width, from registers or literals
MinByMinusOne ==
    /\ Stepped
    /\ DecodeProbes # {}
    /\ Decoded.err = "Ok"
    /\ ir.name \in DivNames
    /\ \A i \in 0..1 : /\ ir.operands[i].mode \in Literals \cup {"Register"}
                       /\ ir.operands[i].expanded_type = "Nothing"
    /\ LowBits(DivA, DivWidth) = LowBits(<<65535, 65535>>, DivWidth)
    /\ LowBits(DivB, DivWidth) = CASE DivWidth = 32 -> <<32768, 0>>
                                    [] DivWidth = 16 -> <<0, 32768>>
                                    [] OTHER -> <<0, 128>>

C35_MinByMinusOneSetsV ==
    MinByMinusOne => ret.err = "Ok" /\ WordBit(r[R_PSW], 19) = 1

(***************************************************************************)
(* C36: after MOVB, MOVH or MOVW, C is clear and V is set exactly when the *)
(* moved value cannot be represented in the destination's width (never for *)
(* MOVW); a value that fits the width, such as a negative literal or a     *)
(* sign-extended negative byte moved by MOVB, leaves V clear.              *)
(***************************************************************************)
\* the value the MOV the last step executed read from its source
MovVal == read_op(MachineDecoded, 0).val

\* val is a number of w bits, unsigned or signed (sign-extended to 32 bits)
Representable(val, w) ==
    \/ w = 32
    \/ val = LowBits(val, w)
    \/ /\ WordBit(val, w - 1) = 1
       /\ val = OrW(LowBits(val, w), NotW(LowBits(<<65535, 65535>>, w)))

C36_MovSetsVWhenNotRepresentable ==
    (Executed /\ ir.name \in {"MOVB", "MOVH", "MOVW"}) =>
        /\ WordBit(r[R_PSW], 18) = 0
        /\ WordBit(r[R_PSW], 19) = 1 <=>
               ~Representable(MovVal, 8 * WidthOf(ir.operands[1]))

(***************************************************************************)
(* C37: field insert and extract are inverse on the field.  For width - 1  *)
(* and offset in 0..31 with width + offset <= 32, INSFW(width - 1, offset, *)
(* src, dst) changes only bits offset .. offset + width - 1 of dst, which  *)
(* become the low width bits of src, and an EXTFW(width - 1, offset, dst,  *)
(* x) after it yields x = src AND (2^width - 1); for every width and       *)
(* offset EXTFW yields (source >> offset) AND (2^width - 1).               *)
(***************************************************************************)
\* the width and the offset of the field instruction the last step decoded
FieldWidth == (read_op(MachineDecoded, 0).val[2] % 32) + 1
FieldOffset == read_op(MachineDecoded, 1).val[2] % 32

\* x is (source >> offset) AND (2^width - 1)
IsField(x, source, width, offset) ==
    \A i \in 0..31 :
        WordBit(x, i) = IF i < width /\ i + offset <= 31 THEN WordBit(source, i + offset)
                        ELSE 0

\* x is dst with the low width bits of src in bits offset .. offset + width - 1
IsInserted(x, dst, src, width, offset) ==
    \A i \in 0..31 :
        WordBit(x, i) = IF i >= offset /\ i < offset + width THEN WordBit(src, i - offset)
                        ELSE WordBit(dst, i)

C37_InsertThenExtract ==
    /\ (Executed /\ ir.name = "INSFW" /\ FieldWidth + FieldOffset <= 32) =>
          /\ IsInserted(read_op([MachineDecoded EXCEPT !.r = r, !.mem = mem], 3).val,
                        read_op(MachineDecoded, 3).val, read_op(MachineDecoded, 2).val,
                        FieldWidth, FieldOffset)
          /\ \A i \in 0..14 \ {2, R_PSW} : r[i] = Decoded.r0[i]
          /\ mem = Decoded.mem0
    /\ (Executed /\ ir.name = "EXTFW") =>
          IsField(read_op([MachineDecoded EXCEPT !.r = r, !.mem = mem], 3).val,
                  read_op(MachineDecoded, 2).val, FieldWidth, FieldOffset)
    /\ (Executed /\ ir.name = "EXTFW" /\ Len(hist) = 2 /\ Ran(CallBefore, "INSFW")
           /\ FieldWidth + FieldOffset <= 32) =>
          IsField(r[3], CallBefore.r[1], FieldWidth, 0)

\* A field of 12 bits at offset 20 was inserted and extracted again: r3 is
\* the low 12 bits of the source 0xA5A51E87, and r2 has them in its top 12
\* bits above the 20 bits it had before.
C37_Witness ==
    /\ Executed
    /\ ir.name = "EXTFW"
    /\ Len(hist) = 2
    /\ Ran(CallBefore, "INSFW")
    /\ FieldWidth = 12
    /\ FieldOffset = 20
    /\ CallBefore.r[1] = <<42405, 7815>>
    /\ CallBefore.r[2] = <<23130, 50115>>
    /\ r[3] = <<0, 3719>>
    /\ r[2] = <<59514, 50115>>

(***************************************************************************)
(* C38: after read_op or write_op on operand i has succeeded, operand i of *)
(* the instruction register carries the transferred value in its data      *)
(* field: the value returned after read_op, the value written after        *)
(* write_op.                                                               *)
(***************************************************************************)
C38_OperandCarriesTheValue ==
    /\ (ret.call = "read_op" /\ ret.err = "Ok") => Accessed.data = ret.val
    /\ (ret.call = "write_op" /\ ret.err = "Ok") => Accessed.data = hist[2]

====
